---------------------------- MODULE Spec2Model ----------------------------
(***************************************************************************)
(* A model of chrome/browser/autofill/autofill_manager.cc: the form cache, *)
(* the section resolver (FindSectionBounds), the forward-search matcher     *)
(* (SectionIsAutoFilled and the fill loop of OnFillAutoFillFormData), the   *)
(* suggestion engine (OnQueryFormFieldAutoFill, RemoveDuplicateSuggestions) *)
(* and the identifier codec (PackGUIDs / UnpackGUIDs).                      *)
(*                                                                         *)
(* Indices are the code's: a field index i of the code (0-based) is the    *)
(* element i + 1 of the TLA+ sequence.  Text (string16, std::string) is a   *)
(* sequence of one-character strings.                                      *)
(***************************************************************************)
EXTENDS Integers, Sequences, FiniteSets, TLC

VARIABLES
    enabled,                      \* prefs::kAutoFillEnabled
    personal_data,                \* personal_data_: profiles() and credit_cards()
    form_structures,              \* form_structures_ (the form cache)
    guid_id_map,                  \* guid_id_map_
    id_guid_map,                  \* id_guid_map_
    last_id,                      \* static int last_id of GUIDToID
    autofilled_forms_signatures,  \* autofilled_forms_signatures_
    out,                          \* what the last handler handed off or sent
    call,                         \* arguments of a helper called on its own
    ret                           \* what that helper returned

vars == <<enabled, personal_data, form_structures, guid_id_map, id_guid_map,
          last_id, autofilled_forms_signatures, out, call, ret>>

managerVars == <<enabled, personal_data, form_structures, guid_id_map,
                 id_guid_map, last_id, autofilled_forms_signatures, out>>

managerVarsButOut == <<enabled, personal_data, form_structures, guid_id_map,
                       id_guid_map, last_id, autofilled_forms_signatures>>

(***************************************************************************)
(* Bounds of the model.                                                    *)
(***************************************************************************)
MaxFields == 4       \* fields of a cached form given to FindSectionBounds alone
MaxMatchFields == 3  \* fields of the cached and of the live form given to the matcher alone
MaxSuggestions == 3  \* entries given to RemoveDuplicateSuggestions alone
MaxFillCached == 3   \* fields of the cached form of a fill request made on its own
MaxFillLive == 2     \* fields of the live form of a fill request made on its own
MaxQueryCached == 2  \* forms in the cache when the query is called on its own
MaxCachedForms == 2  \* forms in the cache of the manager as a whole
MaxSignatures == 1   \* entries of autofilled_forms_signatures_ of the manager as a whole
MaxInFlight == 2     \* classifier queries that wait for their response
MaxDriftFields == 4  \* fields of a cached form that loses one in the live form
MaxBlockFields == 3  \* fields in the identity block and in the payment block of a form
MaxValueCards == 2   \* credit cards in the store of the value resolver's calls
MaxPackCalls == 2    \* PackGUIDs calls made on the codec alone
MaxUploadFills == 4  \* full-section fills before a submission

(***************************************************************************)
(* Field types (AutofillFieldType) and their groups (AutoFillType::group). *)
(***************************************************************************)
FieldTypes ==
    {"UNKNOWN_TYPE", "NAME_FIRST", "ADDRESS_HOME_CITY", "ADDRESS_BILLING_CITY",
     "PHONE_HOME_NUMBER", "PHONE_FAX_NUMBER",
     "CREDIT_CARD_NUMBER", "CREDIT_CARD_EXP_MONTH",
     "CREDIT_CARD_EXP_4_DIGIT_YEAR"}

\* AutoFillType(type).group()
Group(type) ==
    CASE type = "NAME_FIRST"                   -> "CONTACT_INFO"
      [] type = "ADDRESS_HOME_CITY"            -> "ADDRESS_HOME"
      [] type = "ADDRESS_BILLING_CITY"         -> "ADDRESS_BILLING"
      [] type = "PHONE_HOME_NUMBER"            -> "PHONE_HOME"
      [] type = "PHONE_FAX_NUMBER"             -> "PHONE_FAX"
      [] type \in {"CREDIT_CARD_NUMBER", "CREDIT_CARD_EXP_MONTH",
                   "CREDIT_CARD_EXP_4_DIGIT_YEAR"} -> "CREDIT_CARD"
      [] OTHER                                 -> "NO_GROUP"

\* AutoFillType::GetEquivalentFieldType: billing address types are mapped to
\* their home address equivalents, every other type to itself.
GetEquivalentFieldType(type) ==
    IF type = "ADDRESS_BILLING_CITY" THEN "ADDRESS_HOME_CITY" ELSE type

(***************************************************************************)
(* FindSectionBounds.  |form| is the sequence of the cached form's fields, *)
(* |field| the index of the initiating field in it.  The loop state s      *)
(* holds section_start, section_end, seen_types and                        *)
(* initiating_field_is_in_current_section (found).                         *)
(***************************************************************************)
\* already_saw_current_type: a repeated type, phone and fax types excepted
AlreadySawCurrentType_NoPhoneExemption(current_type, seen_types) ==
    current_type \in seen_types

\* A test that forgets every type it saw
AlreadySawCurrentType_Never(current_type, seen_types) == FALSE

AlreadySawCurrentType(current_type, seen_types) ==
    IF Group(current_type) \in {"PHONE_HOME", "PHONE_FAX"}
    THEN FALSE
    ELSE current_type \in seen_types

\* is_appropriate_type
IsAppropriateType_Always(current_type, is_filling_credit_card) == TRUE

IsAppropriateType(current_type, is_filling_credit_card) ==
    (Group(current_type) = "CREDIT_CARD") = is_filling_credit_card

\* where the new section starts when field i ended the previous one
NewSectionStart_AtField(i, is_appropriate_type) == i

\* A new section that always starts after the field that ended the last one
NewSectionStart_AfterField(i, is_appropriate_type) == i + 1

NewSectionStart(i, is_appropriate_type) ==
    IF is_appropriate_type THEN i ELSE i + 1

RECURSIVE FindSectionBoundsLoop(_, _, _, _, _)
FindSectionBoundsLoop(form, field, is_filling_credit_card, i, s) ==
    IF i >= Len(form) THEN s
    ELSE
      LET current_type == GetEquivalentFieldType(form[i + 1].type)
          already_saw_current_type ==
              AlreadySawCurrentType(current_type, s.seen_types)
          is_appropriate_type ==
              IsAppropriateType(current_type, is_filling_credit_card)
          \* the tail of the loop body: seen_types.insert, the pointer test
          Insert(t) == [t EXCEPT !.seen_types = @ \cup {current_type},
                                 !.found = @ \/ (i = field)]
          NewSection == [s EXCEPT !.seen_types = {},
                           !.section_start = NewSectionStart(i, is_appropriate_type)]
      IN
      IF current_type = "UNKNOWN_TYPE"
      THEN FindSectionBoundsLoop(form, field, is_filling_credit_card, i + 1, s)
      ELSE IF already_saw_current_type \/ ~is_appropriate_type
      THEN IF s.found
           THEN [s EXCEPT !.section_end = i]                        \* break
           ELSE IF is_appropriate_type
           THEN FindSectionBoundsLoop(form, field, is_filling_credit_card, i + 1,
                                      Insert(NewSection))
           ELSE FindSectionBoundsLoop(form, field, is_filling_credit_card, i + 1,
                                      NewSection)               \* continue
      ELSE FindSectionBoundsLoop(form, field, is_filling_credit_card, i + 1,
                                 Insert(s))

\* A FindSectionBounds whose section ends at the initiating field unless a
\* later field ends it
FindSectionBounds_EndAtField(form, field, is_filling_credit_card) ==
    FindSectionBoundsLoop(form, field, is_filling_credit_card, 0,
        [section_start |-> 0, section_end |-> field,
         seen_types |-> {}, found |-> FALSE])

\* A FindSectionBounds whose section starts at the initiating field unless an
\* earlier field starts it
FindSectionBounds_StartAtField(form, field, is_filling_credit_card) ==
    FindSectionBoundsLoop(form, field, is_filling_credit_card, 0,
        [section_start |-> field, section_end |-> Len(form),
         seen_types |-> {}, found |-> FALSE])

FindSectionBounds(form, field, is_filling_credit_card) ==
    FindSectionBoundsLoop(form, field, is_filling_credit_card, 0,
        [section_start |-> 0, section_end |-> Len(form),
         seen_types |-> {}, found |-> FALSE])

(***************************************************************************)
(* RemoveDuplicateSuggestions, on the four parallel vectors.  |s| holds    *)
(* seen_suggestions and the four copies.                                   *)
(***************************************************************************)
\* the std::pair inserted into seen_suggestions
SuggestionKey_ValueOnly(value, label) == <<value, <<>>>>

SuggestionKey(value, label) == <<value, label>>

RECURSIVE RemoveDuplicateLoop(_, _, _, _, _, _)
\* A loop that drops a duplicate's value, label and icon but keeps its id
RemoveDuplicateLoop_KeepingEveryId(values, labels, icons, unique_ids, i, s) ==
    IF i >= Len(values) THEN s
    ELSE
      LET suggestion == SuggestionKey(values[i + 1], labels[i + 1]) IN
      IF suggestion \notin s.seen_suggestions
      THEN RemoveDuplicateLoop(values, labels, icons, unique_ids, i + 1,
             [seen_suggestions |-> s.seen_suggestions \cup {suggestion},
              values |-> Append(s.values, values[i + 1]),
              labels |-> Append(s.labels, labels[i + 1]),
              icons |-> Append(s.icons, icons[i + 1]),
              unique_ids |-> Append(s.unique_ids, unique_ids[i + 1])])
      ELSE RemoveDuplicateLoop(values, labels, icons, unique_ids, i + 1,
             [s EXCEPT !.unique_ids = Append(s.unique_ids, unique_ids[i + 1])])

\* A loop that erases a duplicate in place and then increments i: the entry
\* after a duplicate is kept without being looked at
RemoveDuplicateLoop_SkipAfterErase(values, labels, icons, unique_ids, i, s) ==
    IF i >= Len(values) THEN s
    ELSE
      LET suggestion == SuggestionKey(values[i + 1], labels[i + 1]) IN
      IF suggestion \notin s.seen_suggestions
      THEN RemoveDuplicateLoop(values, labels, icons, unique_ids, i + 1,
             [seen_suggestions |-> s.seen_suggestions \cup {suggestion},
              values |-> Append(s.values, values[i + 1]),
              labels |-> Append(s.labels, labels[i + 1]),
              icons |-> Append(s.icons, icons[i + 1]),
              unique_ids |-> Append(s.unique_ids, unique_ids[i + 1])])
      ELSE IF i + 1 >= Len(values) THEN s
      ELSE RemoveDuplicateLoop(values, labels, icons, unique_ids, i + 2,
             [seen_suggestions |-> s.seen_suggestions,
              values |-> Append(s.values, values[i + 2]),
              labels |-> Append(s.labels, labels[i + 2]),
              icons |-> Append(s.icons, icons[i + 2]),
              unique_ids |-> Append(s.unique_ids, unique_ids[i + 2])])

RemoveDuplicateLoop(values, labels, icons, unique_ids, i, s) ==
    IF i >= Len(values) THEN s
    ELSE
      LET suggestion == SuggestionKey(values[i + 1], labels[i + 1]) IN
      IF suggestion \notin s.seen_suggestions
      THEN RemoveDuplicateLoop(values, labels, icons, unique_ids, i + 1,
             [seen_suggestions |-> s.seen_suggestions \cup {suggestion},
              values |-> Append(s.values, values[i + 1]),
              labels |-> Append(s.labels, labels[i + 1]),
              icons |-> Append(s.icons, icons[i + 1]),
              unique_ids |-> Append(s.unique_ids, unique_ids[i + 1])])
      ELSE RemoveDuplicateLoop(values, labels, icons, unique_ids, i + 1, s)

RemoveDuplicateSuggestions(values, labels, icons, unique_ids) ==
    LET s == RemoveDuplicateLoop(values, labels, icons, unique_ids, 0,
                [seen_suggestions |-> {}, values |-> <<>>, labels |-> <<>>,
                 icons |-> <<>>, unique_ids |-> <<>>])
    IN [values |-> s.values, labels |-> s.labels, icons |-> s.icons,
        unique_ids |-> s.unique_ids]

(***************************************************************************)
(* Fields.  A FormField is [name, form_control_type, max_length, value,    *)
(* is_autofilled]; an AutoFillField (a cached field) is a FormField with   *)
(* its type.  FormField::operator== leaves the value and the autofilled    *)
(* flag out; |name| stands for the field's name and label together.        *)
(***************************************************************************)
FieldEquals(a, b) ==
    /\ a.name = b.name
    /\ a.form_control_type = b.form_control_type
    /\ a.max_length = b.max_length

(***************************************************************************)
(* The forward search of both matching loops: from cached index k, the     *)
(* first index below |limit| whose cached field equals |live_field|, or    *)
(* |limit| when there is none.                                             *)
(***************************************************************************)
RECURSIVE SearchForward(_, _, _, _)
\* A search that tries the cached field at k only
SearchForward_NoSearchAhead(form_structure, live_field, k, limit) ==
    IF k < limit /\ ~FieldEquals(form_structure[k + 1], live_field)
    THEN limit
    ELSE k

SearchForward(form_structure, live_field, k, limit) ==
    IF k < limit /\ ~FieldEquals(form_structure[k + 1], live_field)
    THEN SearchForward(form_structure, live_field, k + 1, limit)
    ELSE k

\* The cached cursor after a match at k: the code's ++i
NextCachedIndex_AfterMatch(i, k) == k + 1

NextCachedIndex(i, k) == i + 1

(***************************************************************************)
(* The matching loop of OnFillAutoFillFormData: the correspondences        *)
(* <<k, j>> (cached index, live index) in the order the loop finds them.   *)
(* What the loop writes into a matched live field does not change the      *)
(* field's identity, so the writes do not influence the matching.          *)
(***************************************************************************)
RECURSIVE FillMatchLoop(_, _, _, _, _, _)
FillMatchLoop(form_structure, fields, section_end, i, j, matches) ==
    IF ~(i < section_end /\ j < Len(fields)) THEN matches
    ELSE
      LET k == SearchForward(form_structure, fields[j + 1], i, section_end) IN
      IF k >= section_end
      THEN FillMatchLoop(form_structure, fields, section_end, i, j + 1, matches)
      ELSE FillMatchLoop(form_structure, fields, section_end,
                         NextCachedIndex(i, k), j + 1,
                         Append(matches, <<k, j>>))

FillMatches(form_structure, fields, section_start, section_end) ==
    FillMatchLoop(form_structure, fields, section_end, section_start, 0, <<>>)

(***************************************************************************)
(* SectionIsAutoFilled: the same loop, but its forward search runs to the  *)
(* end of the form (field_count) and it returns at the first matched live  *)
(* field that is autofilled.                                               *)
(***************************************************************************)
RECURSIVE SectionIsAutoFilledLoop(_, _, _, _, _)
SectionIsAutoFilledLoop(form_structure, fields, section_end, i, j) ==
    IF ~(i < section_end /\ j < Len(fields)) THEN FALSE
    ELSE
      LET k == SearchForward(form_structure, fields[j + 1], i,
                             Len(form_structure)) IN
      IF k >= Len(form_structure)
      THEN SectionIsAutoFilledLoop(form_structure, fields, section_end, i, j + 1)
      ELSE IF fields[j + 1].is_autofilled
      THEN TRUE
      ELSE SectionIsAutoFilledLoop(form_structure, fields, section_end,
                                   NextCachedIndex(i, k), j + 1)

SectionIsAutoFilled(form_structure, fields, section_start, section_end) ==
    SectionIsAutoFilledLoop(form_structure, fields, section_end,
                            section_start, 0)

EmptyMap == [x \in {} |-> 0]

NoOutput == [kind |-> "none"]

(***************************************************************************)
(* The identifier codec.  An int is a 32-bit two's complement integer; a   *)
(* GUID is a string, the empty string being std::string().  The codec's    *)
(* state c is [guid_id_map, id_guid_map, last_id].                         *)
(***************************************************************************)
\* std::numeric_limits<unsigned short>::max() and ::digits
kUShortMax == 65535
kUShortDigits == 16

\* Op at the value of e.  TLC evaluates the definition of a LET anew at each
\* of its uses; With evaluates e once.
With(e, Op(_)) == CHOOSE y \in {Op(x) : x \in {e}} : TRUE

RECURSIVE Pow2(_)
Pow2(n) == IF n = 0 THEN 1 ELSE 2 * Pow2(n - 1)

\* a | b for 0 <= a, b
RECURSIVE BitOr(_, _)
BitOr(a, b) ==
    IF a = 0 THEN b
    ELSE IF b = 0 THEN a
    ELSE (IF a % 2 = 1 \/ b % 2 = 1 THEN 1 ELSE 0) + 2 * BitOr(a \div 2, b \div 2)

\* guid::IsValidGUID: of the strings of the model only the empty one and
\* "not-a-guid" are no GUIDs
IsValidGUID(guid) == guid \notin {"", "not-a-guid"}

\* The int whose high word is |high| and whose low word is |low|
\* (0 <= high, low <= kUShortMax)
Int32OfWords(high, low) ==
    IF high >= Pow2(kUShortDigits - 1)
    THEN (high - Pow2(kUShortDigits)) * Pow2(kUShortDigits) + low
    ELSE high * Pow2(kUShortDigits) + low

\* cc_id << digits | profile_id, as the 32 bits a two's complement build keeps:
\* the shift moves the low word of cc_id into the high word and drops the rest.
ShiftOr_NoShift(cc_id, profile_id) ==
    With(<<cc_id % Pow2(kUShortDigits), profile_id % Pow2(kUShortDigits)>>,
         LAMBDA w : Int32OfWords(0, BitOr(w[1], w[2])))

ShiftOr(cc_id, profile_id) ==
    With(<<cc_id % Pow2(kUShortDigits),
           (profile_id \div Pow2(kUShortDigits)) % Pow2(kUShortDigits),
           profile_id % Pow2(kUShortDigits)>>,
         LAMBDA w : Int32OfWords(BitOr(w[1], w[2]), w[3]))

\* GUIDToID: the id returned and the codec's state after the call
\* A GUIDToID that issues a fresh id at every call, for a GUID it knows too
GUIDToID_AlwaysFresh(guid, c) ==
    IF ~IsValidGUID(guid)
    THEN [id |-> 0, c |-> c]
    ELSE [id |-> c.last_id,
          c |-> [guid_id_map |-> [g \in DOMAIN c.guid_id_map \cup {guid} |->
                                    IF g = guid THEN c.last_id
                                    ELSE c.guid_id_map[g]],
                 id_guid_map |-> [n \in DOMAIN c.id_guid_map \cup {c.last_id} |->
                                    IF n = c.last_id THEN guid
                                    ELSE c.id_guid_map[n]],
                 last_id |-> c.last_id + 1]]

GUIDToID(guid, c) ==
    IF ~IsValidGUID(guid)
    THEN [id |-> 0, c |-> c]
    ELSE IF guid \notin DOMAIN c.guid_id_map
    THEN [id |-> c.last_id,
          c |-> [guid_id_map |-> [g \in DOMAIN c.guid_id_map \cup {guid} |->
                                    IF g = guid THEN c.last_id
                                    ELSE c.guid_id_map[g]],
                 id_guid_map |-> [n \in DOMAIN c.id_guid_map \cup {c.last_id} |->
                                    IF n = c.last_id THEN guid
                                    ELSE c.id_guid_map[n]],
                 last_id |-> c.last_id + 1]]
    ELSE [id |-> c.guid_id_map[guid], c |-> c]

\* IDToGUID; an id that is not in the map is the NOTREACHED branch
\* An IDToGUID that answers an id it does not know with a GUID it knows
IDToGUID_UnknownIsKnown(id, c) ==
    IF id = 0 THEN ""
    ELSE IF id \notin DOMAIN c.id_guid_map
    THEN IF DOMAIN c.id_guid_map = {} THEN ""
         ELSE c.id_guid_map[CHOOSE n \in DOMAIN c.id_guid_map : TRUE]
    ELSE c.id_guid_map[id]

IDToGUID(id, c) ==
    IF id = 0 THEN ""
    ELSE IF id \notin DOMAIN c.id_guid_map THEN ""
    ELSE c.id_guid_map[id]

\* PackGUIDs: the int returned and the codec's state after the call
PackGUIDs(cc_guid, profile_guid, c) ==
    With(GUIDToID(cc_guid, c), LAMBDA cc :
    With(GUIDToID(profile_guid, cc.c), LAMBDA profile :
         [id |-> ShiftOr(cc.id, profile.id), c |-> profile.c]))

\* UnpackGUIDs: <<cc_guid, profile_guid>>
\* An UnpackGUIDs that shifts the high word down and does not mask it
UnpackGUIDs_NoMask(id, c) ==
    LET cc_id == id \div Pow2(kUShortDigits)
        profile_id == id % (kUShortMax + 1)
    IN <<IDToGUID(cc_id, c), IDToGUID(profile_id, c)>>

UnpackGUIDs(id, c) ==
    LET cc_id == (id \div Pow2(kUShortDigits)) % (kUShortMax + 1)
        profile_id == id % (kUShortMax + 1)
    IN <<IDToGUID(cc_id, c), IDToGUID(profile_id, c)>>

\* The codec's state in the manager's variables
Codec == [guid_id_map |-> guid_id_map, id_guid_map |-> id_guid_map,
          last_id |-> last_id]

SetCodec(c) ==
    /\ guid_id_map' = c.guid_id_map
    /\ id_guid_map' = c.id_guid_map
    /\ last_id' = c.last_id

(***************************************************************************)
(* Text and the record store (PersonalDataManager).                        *)
(***************************************************************************)
ToLower(ch) == IF ch = "A" THEN "a" ELSE IF ch = "E" THEN "e" ELSE ch

\* StartsWith(text, prefix, false): a case-insensitive prefix test
StartsWith(text, prefix) ==
    /\ Len(prefix) <= Len(text)
    /\ \A i \in 1..Len(prefix) : ToLower(text[i]) = ToLower(prefix[i])

NoText == <<>>

\* The records there are to store: two profiles and one credit card
ProfileA ==
    [guid |-> "guid-A",
     text |-> [t \in FieldTypes |->
                 CASE t = "NAME_FIRST" -> <<"A", "l">>
                   [] t = "ADDRESS_HOME_CITY" -> <<"E", "l", "y">>
                   [] t = "PHONE_HOME_NUMBER" ->
                        <<"5", "5", "5", "1", "2", "3", "4", "5", "6", "7">>
                   [] OTHER -> NoText]]

ProfileB ==
    [guid |-> "guid-B",
     text |-> [t \in FieldTypes |->
                 CASE t = "NAME_FIRST" -> <<"A", "l">>
                   [] t = "ADDRESS_HOME_CITY" -> <<"A", "y", "r">>
                   [] OTHER -> NoText]]

CardC ==
    [guid |-> "guid-C",
     type |-> <<"v", "i", "s", "a", "C", "C">>,
     text |-> [t \in FieldTypes |->
                 CASE t = "CREDIT_CARD_NUMBER" -> <<"4", "1", "1", "1", "2">>
                   [] t = "CREDIT_CARD_EXP_MONTH" -> <<"0", "1">>
                   [] t = "CREDIT_CARD_EXP_4_DIGIT_YEAR" -> <<"2", "0", "1", "2">>
                   [] OTHER -> NoText]]

\* The record store with every record
FullStore == [profiles |-> <<ProfileA, ProfileB>>, credit_cards |-> <<CardC>>]

(***************************************************************************)
(* The state of a freshly constructed AutoFillManager.  last_id is a       *)
(* function-local static of GUIDToID, shared by every AutoFillManager of   *)
(* the process, while the two maps are members: a manager constructed      *)
(* after others have issued identifiers starts with empty maps and the     *)
(* counter wherever they left it.                                          *)
(***************************************************************************)
ManagerIdle ==
    /\ enabled = TRUE
    /\ personal_data = FullStore
    /\ form_structures = <<>>
    /\ guid_id_map = EmptyMap
    /\ id_guid_map = EmptyMap
    /\ last_id = 1
    /\ autofilled_forms_signatures = <<>>
    /\ out = NoOutput

\* FormGroup::GetFieldText of a profile or a credit card
GetFieldText(record, type) == record.text[GetEquivalentFieldType(type)]

\* CreditCard::LastFourDigits and CreditCard::ObfuscatedNumber
LastFourDigits(credit_card) ==
    LET number == credit_card.text["CREDIT_CARD_NUMBER"] IN
    IF Len(number) < 4 THEN NoText
    ELSE SubSeq(number, Len(number) - 3, Len(number))

ObfuscatedNumber(credit_card) == <<"*", "*">> \o LastFourDigits(credit_card)

\* AutoFillProfile::CreateInferredLabels: one label for each matched profile,
\* made of a field that tells the profiles apart
InferredLabel(profile, type) ==
    IF GetEquivalentFieldType(type) = "ADDRESS_HOME_CITY"
    THEN profile.text["NAME_FIRST"]
    ELSE profile.text["ADDRESS_HOME_CITY"]

CreateInferredLabels(matched_profiles, type) ==
    [i \in 1..Len(matched_profiles) |-> InferredLabel(matched_profiles[i], type)]

\* kCreditCardPrefix
kCreditCardPrefix == <<"*">>

\* AutoFillType::subgroup
Subgroup(type) ==
    IF type \in {"PHONE_HOME_NUMBER", "PHONE_FAX_NUMBER"} THEN "PHONE_NUMBER"
    ELSE "NO_SUBGROUP"

\* PhoneNumber::kPrefixOffset, kPrefixLength, kSuffixOffset, kSuffixLength
kPrefixOffset == 0
kPrefixLength == 3
kSuffixOffset == 3
kSuffixLength == 7

\* string16::substr(pos, n)
Substr(text, pos, n) ==
    SubSeq(text, pos + 1, IF pos + n > Len(text) THEN Len(text) ELSE pos + n)

(***************************************************************************)
(* The value resolver: each operator returns the live field after the      *)
(* call.                                                                   *)
(***************************************************************************)
\* autofill::FillSelectControl: the option that matches the stored text is
\* selected; without stored text the control is left as it is
FillSelectControl(record, type, field) ==
    IF GetFieldText(record, type) = NoText THEN field
    ELSE [field EXCEPT !.value = GetFieldText(record, type)]

\* The phone number resolver without the segments
FillPhoneNumberField_WholeNumber(profile, type, field) ==
    [field EXCEPT !.value = GetFieldText(profile, type)]

FillPhoneNumberField(profile, type, field) ==
    LET number == GetFieldText(profile, type)
        has_valid_suffix_and_prefix ==
            Len(number) = kPrefixLength + kSuffixLength
    IN IF has_valid_suffix_and_prefix /\ field.max_length = kPrefixLength
       THEN [field EXCEPT !.value = Substr(number, kPrefixOffset, kPrefixLength)]
       ELSE IF has_valid_suffix_and_prefix /\ field.max_length = kSuffixLength
       THEN [field EXCEPT !.value = Substr(number, kSuffixOffset, kSuffixLength)]
       ELSE [field EXCEPT !.value = number]

FillFormField(profile, type, field) ==
    IF Subgroup(type) = "PHONE_NUMBER"
    THEN FillPhoneNumberField(profile, type, field)
    ELSE IF field.form_control_type = "select-one"
    THEN FillSelectControl(profile, type, field)
    ELSE [field EXCEPT !.value = GetFieldText(profile, type)]

\* The credit card resolver writing what it has of the date
FillCreditCardFormField_PartialDate(credit_card, type, field) ==
    IF field.form_control_type = "month"
    THEN [field EXCEPT !.value =
             GetFieldText(credit_card, "CREDIT_CARD_EXP_4_DIGIT_YEAR")
                \o <<"-">> \o GetFieldText(credit_card, "CREDIT_CARD_EXP_MONTH")]
    ELSE [field EXCEPT !.value = GetFieldText(credit_card, type)]

\* The credit card resolver that keeps the year and month for the fields of
\* an expiration type and fills every other month control with the stored
\* text
FillCreditCardFormField_ExpirationOnly(credit_card, type, field) ==
    IF field.form_control_type = "select-one"
    THEN FillSelectControl(credit_card, type, field)
    ELSE IF field.form_control_type = "month"
            /\ type \in {"CREDIT_CARD_EXP_MONTH", "CREDIT_CARD_EXP_4_DIGIT_YEAR"}
    THEN LET year == GetFieldText(credit_card, "CREDIT_CARD_EXP_4_DIGIT_YEAR")
             month == GetFieldText(credit_card, "CREDIT_CARD_EXP_MONTH")
         IN IF year # NoText /\ month # NoText
            THEN [field EXCEPT !.value = year \o <<"-">> \o month]
            ELSE field
    ELSE [field EXCEPT !.value = GetFieldText(credit_card, type)]

FillCreditCardFormField(credit_card, type, field) ==
    IF field.form_control_type = "select-one"
    THEN FillSelectControl(credit_card, type, field)
    ELSE IF field.form_control_type = "month"
    THEN LET year == GetFieldText(credit_card, "CREDIT_CARD_EXP_4_DIGIT_YEAR")
             month == GetFieldText(credit_card, "CREDIT_CARD_EXP_MONTH")
         IN IF year # NoText /\ month # NoText
            THEN [field EXCEPT !.value = year \o <<"-">> \o month]
            ELSE field
    ELSE [field EXCEPT !.value = GetFieldText(credit_card, type)]

(***************************************************************************)
(* Forms.  A FormData is [name, https, method, fields], |name| standing    *)
(* for what identifies the form (its name, origin and action) and |https|  *)
(* for the scheme of its origin.  A FormStructure is the FormData with     *)
(* typed fields.                                                           *)
(***************************************************************************)
\* The type the heuristics give a field when its FormStructure is constructed
HeuristicType(field) ==
    CASE field.name = "fname"   -> "NAME_FIRST"
      [] field.name = "city"    -> "ADDRESS_HOME_CITY"
      [] field.name = "phone"   -> "PHONE_HOME_NUMBER"
      [] field.name = "ccnum"   -> "CREDIT_CARD_NUMBER"
      [] field.name = "ccmonth" -> "CREDIT_CARD_EXP_MONTH"
      [] OTHER                  -> "UNKNOWN_TYPE"

AutoFillField(field) ==
    [name |-> field.name, form_control_type |-> field.form_control_type,
     max_length |-> field.max_length, type |-> HeuristicType(field)]

\* FormStructure::FormStructure(const FormData&)
FormStructure(form) ==
    [name |-> form.name, https |-> form.https, method |-> form.method,
     fields |-> [i \in 1..Len(form.fields) |-> AutoFillField(form.fields[i])]]

\* FormStructure::operator==(const FormData&)
FormEquals(form_structure, form) ==
    /\ form_structure.name = form.name
    /\ form_structure.https = form.https

\* FormStructure::autofill_count: the fields of known type
autofill_count(form_structure) ==
    Cardinality({i \in 1..Len(form_structure.fields) :
                    form_structure.fields[i].type # "UNKNOWN_TYPE"})

\* FormStructure::ShouldBeParsed and FormStructure::IsAutoFillable
ShouldBeParsed(form_structure, require_method_post) ==
    /\ Len(form_structure.fields) > 0
    /\ require_method_post => form_structure.method = "POST"

IsAutoFillable(form_structure, require_method_post) ==
    /\ autofill_count(form_structure) > 0
    /\ ShouldBeParsed(form_structure, require_method_post)

FormIsHTTPS(form_structure) == form_structure.https

\* FormStructure::FormSignature
FormSignature(form_structure) ==
    <<form_structure.name,
      [i \in 1..Len(form_structure.fields) |-> form_structure.fields[i].name]>>

(***************************************************************************)
(* The manager's lookups.                                                  *)
(***************************************************************************)
\* A GetHost that does not ask for the preference
GetHost_IgnoringPref ==
    ~(personal_data.profiles = <<>> /\ personal_data.credit_cards = <<>>)

\* GetHost: AutoFill is enabled and there is a record to offer (the render
\* view host is always there)
GetHost ==
    /\ enabled
    /\ ~(personal_data.profiles = <<>> /\ personal_data.credit_cards = <<>>)

\* FindCachedForm: the place in form_structures_ (from 1) of the first cached
\* form equal to |form|, 0 when there is none
FindCachedForm(form) ==
    IF \E n \in 1..Len(form_structures) : FormEquals(form_structures[n], form)
    THEN CHOOSE n \in 1..Len(form_structures) :
            /\ FormEquals(form_structures[n], form)
            /\ \A m \in 1..(n - 1) : ~FormEquals(form_structures[m], form)
    ELSE 0

\* The second half of FindCachedFormAndField: the index of the first cached
\* field equal to |field|, field_count when there is none
FindCachedField(form_structure, field) ==
    SearchForward(form_structure.fields, field, 0, Len(form_structure.fields))

\* FindCachedFormAndField: [found, form (place in the cache), field (index)]
FindCachedFormAndField(form, field) ==
    LET n == FindCachedForm(form) IN
    IF n = 0 THEN [found |-> FALSE, form |-> 0, field |-> 0]
    ELSE IF autofill_count(form_structures[n]) = 0
    THEN [found |-> FALSE, form |-> n, field |-> 0]
    ELSE LET i == FindCachedField(form_structures[n], field) IN
         IF i >= Len(form_structures[n].fields)
         THEN [found |-> FALSE, form |-> n, field |-> 0]
         ELSE [found |-> TRUE, form |-> n, field |-> i]

(***************************************************************************)
(* The suggestion engine.  A suggestion list is the four parallel vectors; *)
(* the Get...Suggestions operators also return the codec's state, which    *)
(* PackGUIDs changes.                                                      *)
(***************************************************************************)
NoSuggestions ==
    [values |-> <<>>, labels |-> <<>>, icons |-> <<>>, unique_ids |-> <<>>]

\* The loop of GetProfileSuggestions over profiles(): s is [matched_profiles,
\* values, unique_ids, c]
RECURSIVE ProfileSuggestionsLoop(_, _, _, _, _)
ProfileSuggestionsLoop(profiles, field, type, n, s) ==
    IF n > Len(profiles) THEN s
    ELSE
      LET profile == profiles[n]
          profile_field_value == GetFieldText(profile, type)
      IN IF profile_field_value # NoText
            /\ StartsWith(profile_field_value, field.value)
         THEN With(PackGUIDs("", profile.guid, s.c), LAMBDA packed :
              With([matched_profiles |-> Append(s.matched_profiles, profile),
                    values |-> Append(s.values, profile_field_value),
                    unique_ids |-> Append(s.unique_ids, packed.id),
                    c |-> packed.c],
                   LAMBDA t : ProfileSuggestionsLoop(profiles, field, type,
                                                     n + 1, t)))
         ELSE ProfileSuggestionsLoop(profiles, field, type, n + 1, s)

GetProfileSuggestions(field, type, c) ==
    With(ProfileSuggestionsLoop(personal_data.profiles, field, type, 1,
            [matched_profiles |-> <<>>, values |-> <<>>,
             unique_ids |-> <<>>, c |-> c]),
         LAMBDA s :
           [values |-> s.values,
            labels |-> CreateInferredLabels(s.matched_profiles, type),
            icons |-> [i \in 1..Len(s.values) |-> NoText],
            unique_ids |-> s.unique_ids,
            c |-> s.c])

\* The value shown for a credit card
CreditCardValue_Literal(credit_card, type) == GetFieldText(credit_card, type)

CreditCardValue(credit_card, type) ==
    IF type = "CREDIT_CARD_NUMBER" THEN ObfuscatedNumber(credit_card)
    ELSE GetFieldText(credit_card, type)

RECURSIVE CreditCardSuggestionsLoop(_, _, _, _, _)
CreditCardSuggestionsLoop(credit_cards, field, type, n, s) ==
    IF n > Len(credit_cards) THEN s
    ELSE
      LET credit_card == credit_cards[n]
          creditcard_field_value == GetFieldText(credit_card, type)
      IN IF creditcard_field_value # NoText
            /\ StartsWith(creditcard_field_value, field.value)
         THEN With(PackGUIDs(credit_card.guid, "", s.c), LAMBDA packed :
              With([values |-> Append(s.values, CreditCardValue(credit_card, type)),
                    labels |-> Append(s.labels,
                                 kCreditCardPrefix \o LastFourDigits(credit_card)),
                    icons |-> Append(s.icons, credit_card.type),
                    unique_ids |-> Append(s.unique_ids, packed.id),
                    c |-> packed.c],
                   LAMBDA t : CreditCardSuggestionsLoop(credit_cards, field, type,
                                                        n + 1, t)))
         ELSE CreditCardSuggestionsLoop(credit_cards, field, type, n + 1, s)

GetCreditCardSuggestions(field, type, c) ==
    CreditCardSuggestionsLoop(personal_data.credit_cards, field, type, 1,
        [values |-> <<>>, labels |-> <<>>, icons |-> <<>>,
         unique_ids |-> <<>>, c |-> c])

\* The warning of lines 352-356: the resource id, NoWarning for int warning = 0
NoWarning == ""

Warning_Never(form_structure, is_filling_credit_card) == NoWarning

Warning(form_structure, is_filling_credit_card) ==
    IF ~IsAutoFillable(form_structure, TRUE)
    THEN "IDS_AUTOFILL_WARNING_FORM_DISABLED"
    ELSE IF is_filling_credit_card /\ ~FormIsHTTPS(form_structure)
    THEN "IDS_AUTOFILL_WARNING_INSECURE_CONNECTION"
    ELSE NoWarning

\* l10n_util::GetStringUTF16(warning): the text of the resource
GetStringUTF16(warning) == <<warning>>

\* What OnQueryFormFieldAutoFill hands off for |form| and |field|: the four
\* vectors, the codec's state after the call, and for the claims the
\* candidates found before the warning and the warning given.
QueryResult(form, field) ==
    LET nothing == [values |-> <<>>, labels |-> <<>>, icons |-> <<>>,
                    unique_ids |-> <<>>, c |-> Codec,
                    candidates |-> NoSuggestions, warning |-> NoWarning]
    IN
    With(FindCachedFormAndField(form, field), LAMBDA found :
    IF ~(GetHost /\ found.found
         /\ IsAutoFillable(form_structures[found.form], FALSE))
    THEN nothing
    ELSE
      With(form_structures[found.form], LAMBDA form_structure :
      With(form_structure.fields[found.field + 1].type, LAMBDA type :
      With(Group(type) = "CREDIT_CARD", LAMBDA is_filling_credit_card :
      With(IF is_filling_credit_card
           THEN GetCreditCardSuggestions(field, type, Codec)
           ELSE GetProfileSuggestions(field, type, Codec), LAMBDA s :
      With(Warning(form_structure, is_filling_credit_card), LAMBDA warning :
      LET candidates == [values |-> s.values, labels |-> s.labels,
                         icons |-> s.icons, unique_ids |-> s.unique_ids]
      IN
      IF s.values = <<>>
      THEN [nothing EXCEPT !.c = s.c]
      ELSE IF warning # NoWarning
      THEN [values |-> <<GetStringUTF16(warning)>>, labels |-> <<NoText>>,
            icons |-> <<NoText>>, unique_ids |-> <<-1>>, c |-> s.c,
            candidates |-> candidates, warning |-> warning]
      ELSE
        With(FindSectionBounds(form_structure.fields, found.field,
                               is_filling_credit_card), LAMBDA section :
        With(SectionIsAutoFilled(form_structure.fields, form.fields,
                section.section_start, section.section_end), LAMBDA filled :
        With(RemoveDuplicateSuggestions(s.values,
                IF filled THEN [i \in 1..Len(s.labels) |-> NoText] ELSE s.labels,
                IF filled THEN [i \in 1..Len(s.icons) |-> NoText] ELSE s.icons,
                s.unique_ids), LAMBDA r :
           [values |-> r.values, labels |-> r.labels, icons |-> r.icons,
            unique_ids |-> r.unique_ids, c |-> s.c,
            candidates |-> candidates, warning |-> NoWarning])))))))))

(***************************************************************************)
(* The fill.                                                               *)
(***************************************************************************)
\* The place (from 1) of the first record of |records| with |guid|, 0 for
\* NULL: the loops of lines 411-435
\* A lookup that falls back on the first record when the GUID names none
FindRecord_OrFirst(records, guid) ==
    IF IsValidGUID(guid) /\ \E n \in 1..Len(records) : records[n].guid = guid
    THEN CHOOSE n \in 1..Len(records) :
            /\ records[n].guid = guid
            /\ \A m \in 1..(n - 1) : records[m].guid # guid
    ELSE IF IsValidGUID(guid) /\ records # <<>> THEN 1
    ELSE 0

FindRecord(records, guid) ==
    IF IsValidGUID(guid) /\ \E n \in 1..Len(records) : records[n].guid = guid
    THEN CHOOSE n \in 1..Len(records) :
            /\ records[n].guid = guid
            /\ \A m \in 1..(n - 1) : records[m].guid # guid
    ELSE 0

\* if (profile) FillFormField(...) else FillCreditCardFormField(...)
FillWith(profile, credit_card, type, field) ==
    IF profile # 0
    THEN FillFormField(personal_data.profiles[profile], type, field)
    ELSE FillCreditCardFormField(personal_data.credit_cards[credit_card],
                                 type, field)

\* The already-filled path (lines 450-463): only the first live field equal
\* to |field| is filled, with the type of the cached initiating field
FillOnlyField_EveryEqualField(fields, field, profile, credit_card, type) ==
    [j \in 1..Len(fields) |->
        IF FieldEquals(fields[j], field)
        THEN FillWith(profile, credit_card, type, fields[j])
        ELSE fields[j]]

FillOnlyField(fields, field, profile, credit_card, type) ==
    LET j == SearchForward(fields, field, 0, Len(fields)) IN
    [h \in 1..Len(fields) |->
        IF h = j + 1 THEN FillWith(profile, credit_card, type, fields[h])
        ELSE fields[h]]

\* Whether the full-section loop fills a matched field (line 492)
HasGroup_Any(type) == TRUE

HasGroup(type) == Group(type) # "NO_GROUP"

\* The writes of the full-section loop (lines 491-500), one for each
\* correspondence of |matches| from the n-th on
RECURSIVE FillMatched(_, _, _, _, _, _)
FillMatched(form_structure, fields, matches, n, profile, credit_card) ==
    IF n > Len(matches) THEN fields
    ELSE
      LET k == matches[n][1]
          j == matches[n][2]
          autofill_type == form_structure[k + 1].type
      IN FillMatched(form_structure,
            IF HasGroup(autofill_type)
            THEN [fields EXCEPT ![j + 1] =
                    FillWith(profile, credit_card, autofill_type, fields[j + 1])]
            ELSE fields,
            matches, n + 1, profile, credit_card)

\* What OnFillAutoFillFormData does with |form|, |field| and |unique_id|:
\* whether it sends AutoFillMsg_FormDataFilled and with which fields, whether
\* it pushes the form's signature, and for the claims the section found, the
\* flag of the DCHECK of line 161 and the path taken.
FillResult(form, field, unique_id) ==
    LET found == FindCachedFormAndField(form, field)
        nothing == [sent |-> FALSE, pushed |-> FALSE]
    IN
    IF ~GetHost \/ ~found.found THEN nothing
    ELSE
      LET form_structure == form_structures[found.form]
          guids == UnpackGUIDs(unique_id, Codec)
          profile == FindRecord(personal_data.profiles, guids[2])
          credit_card == FindRecord(personal_data.credit_cards, guids[1])
      IN
      IF profile = 0 /\ credit_card = 0 THEN nothing
      ELSE
        LET section == FindSectionBounds(form_structure.fields, found.field,
                                         credit_card # 0)
            filled == SectionIsAutoFilled(form_structure.fields, form.fields,
                          section.section_start, section.section_end)
            matches == FillMatches(form_structure.fields, form.fields,
                          section.section_start, section.section_end)
            seen == [cached |-> form_structure.fields, field |-> found.field,
                     section_start |-> section.section_start,
                     section_end |-> section.section_end,
                     in_section |-> section.found,
                     profile |-> profile, credit_card |-> credit_card]
        IN
        IF filled
        THEN [sent |-> TRUE, pushed |-> FALSE, section_filled |-> TRUE,
              seen |-> seen,
              fields |-> FillOnlyField(form.fields, field, profile, credit_card,
                            form_structure.fields[found.field + 1].type)]
        ELSE [sent |-> TRUE, pushed |-> TRUE, section_filled |-> FALSE,
              seen |-> seen,
              signature |-> FormSignature(form_structure),
              fields |-> FillMatched(form_structure.fields, form.fields,
                                     matches, 1, profile, credit_card)]

(***************************************************************************)
(* ParseForms: the forms that pass ShouldBeParsed(false) are appended to   *)
(* form_structures_, those that also pass ShouldBeParsed(true) first and   *)
(* the others (method GET) after them.                                     *)
(***************************************************************************)
ParseForms_Replacing(cache, forms) ==
    LET parsed == [i \in 1..Len(forms) |-> FormStructure(forms[i])]
        Kept(fs) == ShouldBeParsed(fs, FALSE)
        Fresh(fs) == \A i \in 1..Len(forms) : ~FormEquals(fs, forms[i])
    IN SelectSeq(cache, Fresh) \o SelectSeq(parsed, Kept)

ParseForms(cache, forms) ==
    LET parsed == [i \in 1..Len(forms) |-> FormStructure(forms[i])]
        Queryable(fs) == ShouldBeParsed(fs, FALSE) /\ ShouldBeParsed(fs, TRUE)
        NonQueryable(fs) == ShouldBeParsed(fs, FALSE) /\ ~ShouldBeParsed(fs, TRUE)
    IN cache \o SelectSeq(parsed, Queryable) \o SelectSeq(parsed, NonQueryable)

\* Reset: form_structures_.reset()
Reset_KeepingForms(cache) == cache

Reset(cache) == <<>>

(***************************************************************************)
(* The handlers.  A handler runs when what the one before it handed off    *)
(* has left (out = NoOutput); |out| is what the handler hands off or       *)
(* sends, with the request that it answers.                                *)
(***************************************************************************)
OnFormsSeen(forms) ==
    /\ out = NoOutput
    /\ form_structures' = IF enabled THEN ParseForms(form_structures, forms)
                          ELSE form_structures
    /\ out' = [kind |-> "forms_seen", forms |-> forms]
    /\ UNCHANGED <<enabled, personal_data, guid_id_map, id_guid_map, last_id,
                   autofilled_forms_signatures, call, ret>>

\* A navigation commit that forgets the ids too
DidNavigateMainFramePostCommit_ForgettingIds ==
    /\ out = NoOutput
    /\ form_structures' = Reset(form_structures)
    /\ guid_id_map' = EmptyMap
    /\ id_guid_map' = EmptyMap
    /\ out' = [kind |-> "navigated"]
    /\ UNCHANGED <<enabled, personal_data, last_id,
                   autofilled_forms_signatures, call, ret>>

DidNavigateMainFramePostCommit ==
    /\ out = NoOutput
    /\ form_structures' = Reset(form_structures)
    /\ out' = [kind |-> "navigated"]
    /\ UNCHANGED <<enabled, personal_data, guid_id_map, id_guid_map, last_id,
                   autofilled_forms_signatures, call, ret>>

OnQueryFormFieldAutoFill(form, field) ==
    /\ out = NoOutput
    /\ \E r \in {QueryResult(form, field)} :
         /\ SetCodec(r.c)
         /\ out' = [kind |-> "suggestions", form |-> form, field |-> field,
                    values |-> r.values, labels |-> r.labels,
                    icons |-> r.icons, unique_ids |-> r.unique_ids,
                    candidates |-> r.candidates, warning |-> r.warning]
    /\ UNCHANGED <<enabled, personal_data, form_structures,
                   autofilled_forms_signatures, call, ret>>

OnFillAutoFillFormData(form, field, unique_id) ==
    /\ out = NoOutput
    /\ \E r \in {FillResult(form, field, unique_id)} :
         /\ autofilled_forms_signatures' =
               IF r.pushed THEN <<r.signature>> \o autofilled_forms_signatures
               ELSE autofilled_forms_signatures
         /\ out' = IF r.sent
                   THEN [kind |-> "filled", form |-> form, field |-> field,
                         unique_id |-> unique_id,
                         result |-> [form EXCEPT !.fields = r.fields],
                         section_filled |-> r.section_filled, seen |-> r.seen]
                   ELSE [kind |-> "not_filled", form |-> form, field |-> field,
                         unique_id |-> unique_id]
    /\ UNCHANGED <<enabled, personal_data, form_structures, guid_id_map,
                   id_guid_map, last_id, call, ret>>

\* An UploadFormData that looks at the whole list and erases nothing
UploadFormData_WholeList(signatures, submitted_form) ==
    [was_autofilled |->
        \E n \in 1..Len(signatures) :
           signatures[n] = FormSignature(submitted_form),
     signatures |-> signatures]

\* UploadFormData: whether the submitted form is among the first three of
\* autofilled_forms_signatures_, and the list with what follows the first
\* three erased
UploadFormData(signatures, submitted_form) ==
    [was_autofilled |->
        \E n \in 1..Len(signatures) :
           n <= 3 /\ signatures[n] = FormSignature(submitted_form),
     signatures |->
        IF Len(signatures) > 3 THEN SubSeq(signatures, 1, 3) ELSE signatures]

\* OnFormSubmitted.  |user_submitted| is form.user_submitted, |off_the_record|
\* is what profile()->IsOffTheRecord() answers and |imported| is whether
\* PersonalDataManager::ImportFormData, given a form that is auto-fillable,
\* adds what was submitted to the store.  In what is handed off, autocomplete
\* tells that AutocompleteHistoryManager::OnFormSubmitted was called, uploaded
\* that UploadFormData was, import that ImportFormData was, and not_reached
\* that the NOTREACHED() of LogMetricsAboutSubmittedForm (line 592) was hit.
\* OnFormSubmitted_ScriptToo is an OnFormSubmitted that takes the forms
\* submitted by script too.
OnFormSubmitted_ScriptToo(form, user_submitted, off_the_record, imported) ==
    /\ out = NoOutput
    /\ \E submitted_form \in {FormStructure(form)} :
         IF ~enabled \/ off_the_record
            \/ ~ShouldBeParsed(submitted_form, TRUE)
         THEN /\ out' = [kind |-> "submitted", form |-> form,
                         autocomplete |-> TRUE, import |-> FALSE,
                         uploaded |-> FALSE, not_reached |-> FALSE]
              /\ UNCHANGED <<personal_data, autofilled_forms_signatures>>
         ELSE \E upload \in {UploadFormData(autofilled_forms_signatures,
                                             submitted_form)} :
              /\ out' = [kind |-> "submitted", form |-> form,
                         autocomplete |-> TRUE,
                         import |-> IsAutoFillable(submitted_form, TRUE),
                         uploaded |-> TRUE,
                         was_autofilled |-> upload.was_autofilled,
                         not_reached |-> (FindCachedForm(form) = 0)]
              /\ autofilled_forms_signatures' = upload.signatures
              /\ personal_data' =
                    IF IsAutoFillable(submitted_form, TRUE) /\ imported
                    THEN FullStore
                    ELSE personal_data
    /\ UNCHANGED <<enabled, form_structures, guid_id_map, id_guid_map,
                   last_id, call, ret>>

OnFormSubmitted(form, user_submitted, off_the_record, imported) ==
    /\ out = NoOutput
    /\ \E submitted_form \in {FormStructure(form)} :
         IF ~enabled \/ off_the_record \/ ~user_submitted
            \/ ~ShouldBeParsed(submitted_form, TRUE)
         THEN /\ out' = [kind |-> "submitted", form |-> form,
                         autocomplete |-> TRUE, import |-> FALSE,
                         uploaded |-> FALSE, not_reached |-> FALSE]
              /\ UNCHANGED <<personal_data, autofilled_forms_signatures>>
         ELSE \E upload \in {UploadFormData(autofilled_forms_signatures,
                                             submitted_form)} :
              /\ out' = [kind |-> "submitted", form |-> form,
                         autocomplete |-> TRUE,
                         import |-> IsAutoFillable(submitted_form, TRUE),
                         uploaded |-> TRUE,
                         was_autofilled |-> upload.was_autofilled,
                         not_reached |-> (FindCachedForm(form) = 0)]
              /\ autofilled_forms_signatures' = upload.signatures
              /\ personal_data' =
                    IF IsAutoFillable(submitted_form, TRUE) /\ imported
                    THEN FullStore
                    ELSE personal_data
    /\ UNCHANGED <<enabled, form_structures, guid_id_map, id_guid_map,
                   last_id, call, ret>>

\* The user changes prefs::kAutoFillEnabled
SetAutoFillEnabled(value) ==
    /\ out = NoOutput
    /\ enabled # value
    /\ enabled' = value
    /\ UNCHANGED <<personal_data, form_structures, guid_id_map, id_guid_map,
                   last_id, autofilled_forms_signatures, out, call, ret>>

\* The record store changes: records are added or removed
PersonalDataChanged(data) ==
    /\ out = NoOutput
    /\ personal_data # data
    /\ personal_data' = data
    /\ UNCHANGED <<enabled, form_structures, guid_id_map, id_guid_map,
                   last_id, autofilled_forms_signatures, out, call, ret>>

\* What was handed off or sent has left the manager
HandOff ==
    /\ out # NoOutput
    /\ out' = NoOutput
    /\ UNCHANGED <<enabled, personal_data, form_structures, guid_id_map,
                   id_guid_map, last_id, autofilled_forms_signatures, call, ret>>

\* All sequences over S of length lo..hi
SeqsOf(S, lo, hi) == UNION {[1..n -> S] : n \in lo..hi}

(***************************************************************************)
(* FindSectionBounds called on its own: every cached form of at most       *)
(* MaxFields fields, every field of it as the initiating field, either     *)
(* value of is_filling_credit_card.                                        *)
(***************************************************************************)
SectionForms == SeqsOf([type : FieldTypes], 1, MaxFields)

SectionInit ==
    /\ ManagerIdle
    /\ \E form \in SectionForms, cc \in BOOLEAN :
         \E field \in 0..(Len(form) - 1) :
            call = [op |-> "FindSectionBounds", form |-> form, field |-> field,
                    is_filling_credit_card |-> cc]
    /\ ret = [done |-> FALSE]

CallFindSectionBounds ==
    /\ call.op = "FindSectionBounds"
    /\ ~ret.done
    /\ LET r == FindSectionBounds(call.form, call.field,
                                  call.is_filling_credit_card)
       IN ret' = [done |-> TRUE, section_start |-> r.section_start,
                  section_end |-> r.section_end, found |-> r.found]
    /\ UNCHANGED <<managerVars, call>>

SectionNext == CallFindSectionBounds

SpecSection == SectionInit /\ [][SectionNext]_vars

\* The fields of the range FindSectionBounds returned, as indices of the code
SectionRange == ret.section_start .. (ret.section_end - 1)

(***************************************************************************)
(* C1.  Section containment: for every cached form, every field of it      *)
(* taken as the initiating field and either value of                       *)
(* is_filling_credit_card, FindSectionBounds returns a range with          *)
(* section_start <= index(field) < section_end, and the final              *)
(* DCHECK(initiating_field_is_in_current_section) holds.                   *)
(***************************************************************************)
C1_SectionContainment ==
    ret.done => /\ call.field \in SectionRange
                /\ ret.found

(***************************************************************************)
(* C2.  Section exclusivity: called with is_filling_credit_card = TRUE,    *)
(* every cached field of [section_start, section_end) has the credit card  *)
(* group or unknown type; called with FALSE, no cached field of the range  *)
(* has the credit card group.                                              *)
(***************************************************************************)
C2_SectionExclusivity ==
    ret.done =>
      \A i \in SectionRange :
         LET type == call.form[i + 1].type IN
         IF call.is_filling_credit_card
         THEN Group(type) = "CREDIT_CARD" \/ type = "UNKNOWN_TYPE"
         ELSE Group(type) # "CREDIT_CARD"

\* A credit card section of two fields or more that was cut out of a form on
\* both sides.
C2_Witness ==
    /\ ret.done
    /\ call.is_filling_credit_card
    /\ ret.found
    /\ ret.section_start > 0
    /\ ret.section_end < Len(call.form)
    /\ ret.section_end - ret.section_start >= 2


\* The type of the field at index i of the form of the call, as
\* FindSectionBounds compares types
EquivalentTypeAt(i) == GetEquivalentFieldType(call.form[i + 1].type)

AppropriateAt(i) ==
    (Group(EquivalentTypeAt(i)) = "CREDIT_CARD") = call.is_filling_credit_card

\* A type that ends a section when it repeats
NonExempt(type) ==
    type # "UNKNOWN_TYPE" /\ Group(type) \notin {"PHONE_HOME", "PHONE_FAX"}

\* The field at index i has a type that ends a section when it repeats, and a
\* field of [from, i) has that type
RepeatsTypeOf(i, from) ==
    /\ NonExempt(EquivalentTypeAt(i))
    /\ \E h \in from..(i - 1) : EquivalentTypeAt(h) = EquivalentTypeAt(i)

\* seen_types as the scan has it when it comes to the field at index i
SeenTypesBefore(i) ==
    FindSectionBoundsLoop(SubSeq(call.form, 1, i), i, call.is_filling_credit_card,
        0, [section_start |-> 0, section_end |-> i,
            seen_types |-> {}, found |-> FALSE]).seen_types

\* The initiating field is of known type and of the group that is filled
KnownAppropriateField ==
    /\ EquivalentTypeAt(call.field) # "UNKNOWN_TYPE"
    /\ AppropriateAt(call.field)

(***************************************************************************)
(* C25.  For an initiating field of known type and of the group that is    *)
(* filled, the range ends at the field count or at a field that is of the  *)
(* other group or repeats a type of the range; it starts at 0, or after a  *)
(* field of the other group, or at a field of the right group whose type   *)
(* was seen in the section before; and it is the whole form when the form  *)
(* has no field of the other group and no repeated type.  Types are        *)
(* compared as FindSectionBounds compares them, phone and fax types and    *)
(* the unknown type never count as repeated.                               *)
(***************************************************************************)
C25_RangeDelimitedByTerminators ==
    (ret.done /\ KnownAppropriateField) =>
       /\ ret.section_end < Len(call.form)
             => \/ /\ EquivalentTypeAt(ret.section_end) # "UNKNOWN_TYPE"
                   /\ ~AppropriateAt(ret.section_end)
                \/ RepeatsTypeOf(ret.section_end, ret.section_start)
       /\ ret.section_start > 0
             => \/ /\ EquivalentTypeAt(ret.section_start - 1) # "UNKNOWN_TYPE"
                   /\ ~AppropriateAt(ret.section_start - 1)
                \/ /\ ret.section_start < Len(call.form)
                   /\ AppropriateAt(ret.section_start)
                   /\ NonExempt(EquivalentTypeAt(ret.section_start))
                   /\ EquivalentTypeAt(ret.section_start)
                         \in SeenTypesBefore(ret.section_start)
       /\ (/\ \A i \in 0..(Len(call.form) - 1) :
                 EquivalentTypeAt(i) = "UNKNOWN_TYPE" \/ AppropriateAt(i)
           /\ \A i \in 0..(Len(call.form) - 1) : ~RepeatsTypeOf(i, 0))
             => ret.section_start = 0 /\ ret.section_end = Len(call.form)

\* A section cut out on both sides by repeated types: it starts at a field
\* that repeats the type before it and ends at a field that repeats a type of
\* the range
C25_Witness ==
    /\ ret.done /\ KnownAppropriateField
    /\ ret.section_start > 0
    /\ AppropriateAt(ret.section_start - 1)
    /\ EquivalentTypeAt(ret.section_start) \in SeenTypesBefore(ret.section_start)
    /\ ret.section_end < Len(call.form)
    /\ AppropriateAt(ret.section_end)
    /\ RepeatsTypeOf(ret.section_end, ret.section_start)

\* A form without payment field whose only repeated known types are phone or
\* fax types, in a call that fills from a profile
OnlyPhonesRepeat ==
    /\ ~call.is_filling_credit_card
    /\ \A i \in 0..(Len(call.form) - 1) :
          /\ Group(EquivalentTypeAt(i)) # "CREDIT_CARD"
          /\ ~RepeatsTypeOf(i, 0)

\* Some home-phone or fax type occurs twice in the form
SomePhoneRepeats ==
    \E h, i \in 0..(Len(call.form) - 1) :
       /\ h < i
       /\ EquivalentTypeAt(h) = EquivalentTypeAt(i)
       /\ Group(EquivalentTypeAt(i)) \in {"PHONE_HOME", "PHONE_FAX"}

(***************************************************************************)
(* C26.  A repeated home-phone or fax type never ends a section: a call    *)
(* that fills from a profile, on a form that has no payment field and in   *)
(* which only phone or fax types repeat, returns the whole form, whatever  *)
(* the initiating field.                                                   *)
(***************************************************************************)
C26_RepeatedPhoneNeverEndsSection ==
    (ret.done /\ OnlyPhonesRepeat) =>
       ret.section_start = 0 /\ ret.section_end = Len(call.form)

\* The whole form was returned for a form in which a phone type repeats after
\* the initiating field and before it
C26_Witness ==
    /\ ret.done /\ OnlyPhonesRepeat /\ SomePhoneRepeats
    /\ \E h, i \in 0..(Len(call.form) - 1) :
          /\ h < call.field /\ call.field < i
          /\ EquivalentTypeAt(h) = EquivalentTypeAt(i)
          /\ Group(EquivalentTypeAt(i)) = "PHONE_HOME"
    /\ ret.section_start = 0 /\ ret.section_end = Len(call.form)

(***************************************************************************)
(* C27.  The range FindSectionBounds returns never holds two fields of the *)
(* same known type, as the function compares types, unless the type is a   *)
(* home-phone or a fax type: for every form, initiating field and flag.    *)
(***************************************************************************)
C27_NoRepeatedTypeInRange ==
    ret.done =>
       \A h, i \in ret.section_start..(ret.section_end - 1) :
          (h < i /\ EquivalentTypeAt(h) = EquivalentTypeAt(i))
             => ~NonExempt(EquivalentTypeAt(i))

\* A range of two fields at least, a repeated phone type among them, that a
\* repeated type of another group ended before the end of the form
C27_Witness ==
    /\ ret.done
    /\ ret.section_end < Len(call.form)
    /\ RepeatsTypeOf(ret.section_end, ret.section_start)
    /\ \E h, i \in ret.section_start..(ret.section_end - 1) :
          /\ h < i
          /\ EquivalentTypeAt(h) = EquivalentTypeAt(i)
          /\ Group(EquivalentTypeAt(i)) \in {"PHONE_HOME", "PHONE_FAX"}

(***************************************************************************)
(* C34.  For every form, every initiating field, one of unknown type or of *)
(* the other group too, and both flags, FindSectionBounds returns          *)
(* 0 <= section_start <= section_end <= field_count: the loops over        *)
(* [section_start, section_end) stay inside the form.                      *)
(***************************************************************************)
C34_RangeInsideForm ==
    ret.done =>
       /\ 0 <= ret.section_start
       /\ ret.section_start <= ret.section_end
       /\ ret.section_end <= Len(call.form)
       /\ \A i \in ret.section_start..(ret.section_end - 1) :
             i + 1 \in DOMAIN call.form

\* The initiating field is the last of the form and of the other group: the
\* range is the empty one at the end of the form
C34_Witness ==
    /\ ret.done
    /\ ~ret.found
    /\ call.field = Len(call.form) - 1
    /\ EquivalentTypeAt(call.field) # "UNKNOWN_TYPE"
    /\ ~AppropriateAt(call.field)
    /\ ret.section_start = Len(call.form)
    /\ ret.section_end = Len(call.form)

\* The range FindSectionBounds returns for the form and the flag of the call
\* and the initiating field g
RangeFor(g) ==
    With(FindSectionBounds(call.form, g, call.is_filling_credit_card),
         LAMBDA r : <<r.section_start, r.section_end>>)

(***************************************************************************)
(* C35.  Sections do not depend on the initiating field: when              *)
(* FindSectionBounds returns [s, e) for a field, it returns [s, e) for     *)
(* every field of [s, e) that is of known type and of the group that is    *)
(* filled, with the same flag.                                             *)
(***************************************************************************)
C35_SectionSameForItsFields ==
    ret.done =>
       \A g \in ret.section_start..(ret.section_end - 1) :
          (EquivalentTypeAt(g) # "UNKNOWN_TYPE" /\ AppropriateAt(g))
             => RangeFor(g) = <<ret.section_start, ret.section_end>>

\* A section cut out on both sides, returned for its first field, holds
\* another field of known type and of the filled group, for which the same
\* section is returned
C35_Witness ==
    /\ ret.done /\ ret.found
    /\ ret.section_start > 0
    /\ ret.section_end < Len(call.form)
    /\ call.field = ret.section_start
    /\ \E g \in (ret.section_start + 1)..(ret.section_end - 1) :
          /\ EquivalentTypeAt(g) # "UNKNOWN_TYPE" /\ AppropriateAt(g)
          /\ RangeFor(g) = <<ret.section_start, ret.section_end>>

(***************************************************************************)
(* FindSectionBounds on forms made of two blocks: up to MaxBlockFields     *)
(* profile fields, no two of them of the same type as FindSectionBounds    *)
(* compares types (after GetEquivalentFieldType), then up to               *)
(* MaxBlockFields credit card fields of different types.  No field is of   *)
(* unknown type.                                                           *)
(***************************************************************************)
IdentityTypes == {t \in FieldTypes : t # "UNKNOWN_TYPE" /\ Group(t) # "CREDIT_CARD"}

PaymentTypes == {t \in FieldTypes : Group(t) = "CREDIT_CARD"}

\* The sequences over |types| of at most MaxBlockFields fields whose types
\* differ pairwise
Blocks(types) ==
    {block \in SeqsOf([type : types], 0, MaxBlockFields) :
        \A i, j \in 1..Len(block) :
           i # j => GetEquivalentFieldType(block[i].type)
                       # GetEquivalentFieldType(block[j].type)}

BlocksInit ==
    /\ ManagerIdle
    /\ \E identity \in Blocks(IdentityTypes), payment \in Blocks(PaymentTypes),
          cc \in BOOLEAN :
         \E field \in 0..(Len(identity) + Len(payment) - 1) :
            call = [op |-> "FindSectionBounds", form |-> identity \o payment,
                    field |-> field, is_filling_credit_card |-> cc]
    /\ ret = [done |-> FALSE]

SpecBlocks == BlocksInit /\ [][SectionNext]_vars

\* The length of the identity block of the form of the call
IdentityBlockLen ==
    Cardinality({i \in 1..Len(call.form) : Group(call.form[i].type) # "CREDIT_CARD"})

(***************************************************************************)
(* C19.  On a form made of an identity block followed by a payment block,  *)
(* fields of a block being of pairwise distinct types, a credit card       *)
(* section asked from a payment field is the payment block and a profile   *)
(* section asked from an identity field is the identity block.  For        *)
(* [Name, City, CardNumber, ExpMonth, ExpYear] and CardNumber the credit   *)
(* card section is [2, 5).                                                 *)
(***************************************************************************)
C19_BlocksAreSections ==
    (ret.done
       /\ call.is_filling_credit_card
             = (Group(call.form[call.field + 1].type) = "CREDIT_CARD"))
       => /\ ret.section_start =
                IF call.is_filling_credit_card THEN IdentityBlockLen ELSE 0
          /\ ret.section_end =
                IF call.is_filling_credit_card THEN Len(call.form)
                ELSE IdentityBlockLen
          /\ (call.form = <<[type |-> "NAME_FIRST"], [type |-> "ADDRESS_HOME_CITY"],
                            [type |-> "CREDIT_CARD_NUMBER"],
                            [type |-> "CREDIT_CARD_EXP_MONTH"],
                            [type |-> "CREDIT_CARD_EXP_4_DIGIT_YEAR"]>>
              /\ call.field = 2 /\ call.is_filling_credit_card)
                => ret.section_start = 2 /\ ret.section_end = 5

\* The credit card section of [Name, City, CardNumber, ExpMonth, ExpYear]
\* asked from CardNumber
C19_Witness ==
    /\ ret.done
    /\ call.form = <<[type |-> "NAME_FIRST"], [type |-> "ADDRESS_HOME_CITY"],
                     [type |-> "CREDIT_CARD_NUMBER"],
                     [type |-> "CREDIT_CARD_EXP_MONTH"],
                     [type |-> "CREDIT_CARD_EXP_4_DIGIT_YEAR"]>>
    /\ call.field = 2
    /\ call.is_filling_credit_card
    /\ ret.section_start = 2
    /\ ret.section_end = 5


(***************************************************************************)
(* The matching loop on its own: every cached sequence and every live      *)
(* sequence of at most MaxMatchFields fields over three field identities,  *)
(* every section [section_start, section_end) of the cached sequence.      *)
(***************************************************************************)
MatchNames == {"a", "b", "c"}

MatchCached ==
    SeqsOf([name : MatchNames, form_control_type : {"text"}, max_length : {0},
            type : {"NAME_FIRST"}], 1, MaxMatchFields)

MatchLive ==
    SeqsOf([name : MatchNames, form_control_type : {"text"}, max_length : {0},
            value : {<<>>}, is_autofilled : {FALSE}], 0, MaxMatchFields)

MatchInit ==
    /\ ManagerIdle
    /\ \E form_structure \in MatchCached, fields \in MatchLive :
         \E section_start \in 0..Len(form_structure) :
           \E section_end \in section_start..Len(form_structure) :
             call = [op |-> "FillMatches", form_structure |-> form_structure,
                     fields |-> fields, section_start |-> section_start,
                     section_end |-> section_end]
    /\ ret = [done |-> FALSE]

CallFillMatches ==
    /\ call.op = "FillMatches"
    /\ ~ret.done
    /\ ret' = [done |-> TRUE,
               matches |-> FillMatches(call.form_structure, call.fields,
                                       call.section_start, call.section_end)]
    /\ UNCHANGED <<managerVars, call>>

MatchNext == CallFillMatches

SpecMatch == MatchInit /\ [][MatchNext]_vars

(***************************************************************************)
(* C3.  Matcher monotonicity: the cached indices k of the correspondences  *)
(* <<k, j>> produced by the forward-search matching loop, listed in order  *)
(* of increasing live index j, are strictly increasing.                    *)
(***************************************************************************)
C3_MatcherMonotonic ==
    ret.done =>
      \A m, n \in 1..Len(ret.matches) :
         m < n => /\ ret.matches[m][2] < ret.matches[n][2]
                  /\ ret.matches[m][1] < ret.matches[n][1]


(***************************************************************************)
(* The two-cursor matching of the specification: the live cursor j starts  *)
(* at 0 and the cached cursor i at section_start; a match at k gives the   *)
(* pair <<k, j>> and moves i to k + 1; without a match i stays.            *)
(***************************************************************************)
RECURSIVE GreedyMatchLoop(_, _, _, _, _, _)
GreedyMatchLoop(form_structure, fields, section_end, i, j, matches) ==
    IF ~(i < section_end /\ j < Len(fields)) THEN matches
    ELSE
      LET k == SearchForward(form_structure, fields[j + 1], i, section_end) IN
      IF k >= section_end
      THEN GreedyMatchLoop(form_structure, fields, section_end, i, j + 1, matches)
      ELSE GreedyMatchLoop(form_structure, fields, section_end, k + 1, j + 1,
                           Append(matches, <<k, j>>))

GreedyMatches(form_structure, fields, section_start, section_end) ==
    GreedyMatchLoop(form_structure, fields, section_end, section_start, 0, <<>>)

(***************************************************************************)
(* C22.  The correspondences of the fill loop are those of the two-cursor  *)
(* matching of the specification, and no cached field is in two of them.   *)
(***************************************************************************)
C22_FillLoopIsGreedyMatching ==
    ret.done =>
       /\ ret.matches = GreedyMatches(call.form_structure, call.fields,
                                      call.section_start, call.section_end)
       /\ \A m, n \in 1..Len(ret.matches) :
             ret.matches[m][1] = ret.matches[n][1] => m = n

(***************************************************************************)
(* SectionIsAutoFilled on its own: every cached sequence of at most        *)
(* MaxMatchFields fields over two field identities, every live sequence of *)
(* at most MaxMatchFields such fields, each autofilled or not, and every   *)
(* section of the cached sequence.                                         *)
(***************************************************************************)
FilledNames == {"a", "b"}

FilledCached ==
    SeqsOf([name : FilledNames, form_control_type : {"text"}, max_length : {0},
            type : {"NAME_FIRST"}], 1, MaxMatchFields)

FilledLive ==
    SeqsOf([name : FilledNames, form_control_type : {"text"}, max_length : {0},
            value : {<<>>}, is_autofilled : BOOLEAN], 0, MaxMatchFields)

FilledInit ==
    /\ ManagerIdle
    /\ \E form_structure \in FilledCached, fields \in FilledLive :
         \E section_start \in 0..Len(form_structure) :
           \E section_end \in section_start..Len(form_structure) :
             call = [op |-> "SectionIsAutoFilled",
                     form_structure |-> form_structure, fields |-> fields,
                     section_start |-> section_start,
                     section_end |-> section_end]
    /\ ret = [done |-> FALSE]

CallSectionIsAutoFilled ==
    /\ call.op = "SectionIsAutoFilled"
    /\ ~ret.done
    /\ ret' = [done |-> TRUE,
               result |-> SectionIsAutoFilled(call.form_structure, call.fields,
                              call.section_start, call.section_end)]
    /\ UNCHANGED <<managerVars, call>>

FilledNext == CallSectionIsAutoFilled

SpecFilled == FilledInit /\ [][FilledNext]_vars

\* The correspondences fill targeting uses for the section of the call
SectionMatches ==
    FillMatches(call.form_structure, call.fields,
                call.section_start, call.section_end)

(***************************************************************************)
(* C23.  SectionIsAutoFilled is TRUE exactly when a live field of one of   *)
(* the correspondences fill targeting uses for the section, each to a      *)
(* cached field of [section_start, section_end), is autofilled.            *)
(***************************************************************************)
C23_FilledIffCorrespondenceFilled ==
    ret.done =>
       (ret.result <=>
          \E n \in 1..Len(SectionMatches) :
             /\ call.section_start <= SectionMatches[n][1]
             /\ SectionMatches[n][1] < call.section_end
             /\ call.fields[SectionMatches[n][2] + 1].is_autofilled)

(***************************************************************************)
(* The matching loop on a live form that lost a field: the cached form has *)
(* up to MaxDriftFields fields over four field identities, or is the       *)
(* checkout form [Name, City, CardNumber, ExpMonth, ExpYear]; the live     *)
(* form is the cached one without one of its fields; the section is any    *)
(* [section_start, section_end) of the cached form.                        *)
(***************************************************************************)
ScenarioCached ==
    <<[name |-> "fname", form_control_type |-> "text", max_length |-> 0,
       type |-> "NAME_FIRST"],
      [name |-> "city", form_control_type |-> "text", max_length |-> 0,
       type |-> "ADDRESS_HOME_CITY"],
      [name |-> "ccnum", form_control_type |-> "text", max_length |-> 0,
       type |-> "CREDIT_CARD_NUMBER"],
      [name |-> "ccmonth", form_control_type |-> "text", max_length |-> 0,
       type |-> "CREDIT_CARD_EXP_MONTH"],
      [name |-> "ccyear", form_control_type |-> "text", max_length |-> 0,
       type |-> "CREDIT_CARD_EXP_4_DIGIT_YEAR"]>>

DriftNames == {"a", "b", "c", "d"}

DriftCached ==
    SeqsOf([name : DriftNames, form_control_type : {"text"}, max_length : {0},
            type : {"NAME_FIRST"}], 1, MaxDriftFields)
       \cup {ScenarioCached}

\* The live fields of the cached form without the field at index |lost|
LiveWithout(form_structure, lost) ==
    [j \in 1..(Len(form_structure) - 1) |->
        LET cached == form_structure[IF j <= lost THEN j ELSE j + 1] IN
        [name |-> cached.name, form_control_type |-> cached.form_control_type,
         max_length |-> cached.max_length, value |-> <<>>,
         is_autofilled |-> FALSE]]

DriftInit ==
    /\ ManagerIdle
    /\ \E form_structure \in DriftCached :
         \E lost \in 0..(Len(form_structure) - 1),
            section_start \in 0..Len(form_structure) :
           \E section_end \in section_start..Len(form_structure) :
             call = [op |-> "FillMatches", form_structure |-> form_structure,
                     fields |-> LiveWithout(form_structure, lost),
                     section_start |-> section_start,
                     section_end |-> section_end, lost |-> lost]
    /\ ret = [done |-> FALSE]

SpecDrift == DriftInit /\ [][MatchNext]_vars

\* The cached fields of the section that equal live field j
EqualsInSection(j) ==
    {k \in call.section_start .. (call.section_end - 1) :
        FieldEquals(call.form_structure[k + 1], call.fields[j + 1])}

\* Live field j is paired with a cached field of the section that equals it
PairedInSection(j) ==
    \E n \in 1..Len(ret.matches) :
       ret.matches[n][2] = j /\ ret.matches[n][1] \in EqualsInSection(j)

Unpaired(j) == \A n \in 1..Len(ret.matches) : ret.matches[n][2] # j

ScenarioB ==
    /\ call.form_structure = ScenarioCached
    /\ call.lost = 1
    /\ call.section_start = 0 /\ call.section_end = 2

(***************************************************************************)
(* C20 as stated: on a live form that lost a field, every live field that  *)
(* has an equal among the cached fields of the section is paired with such *)
(* a field and every live field that has none is not paired at all; for    *)
(* cached [Name, City, CardNumber, ExpMonth, ExpYear], live [Name,         *)
(* CardNumber, ExpMonth, ExpYear] and section [0, 2) the pairs are         *)
(* <<0, 0>> alone.                                                         *)
(***************************************************************************)
C20_LostFieldPairing ==
    ret.done =>
       /\ \A j \in 0..(Len(call.fields) - 1) :
             IF EqualsInSection(j) # {} THEN PairedInSection(j) ELSE Unpaired(j)
       /\ ScenarioB => ret.matches = <<<<0, 0>>>>

\* No two fields of the cached form are equal
DistinctCached ==
    \A h, k \in 1..Len(call.form_structure) :
       h # k => ~FieldEquals(call.form_structure[h], call.form_structure[k])

\* The index in the cached form of the field that live field j was
OriginalIndex(j) == IF j < call.lost THEN j ELSE j + 1

(***************************************************************************)
(* C20, amended: when no two fields of the cached form are equal, every    *)
(* live field whose cached field lies in the section is paired with it and *)
(* with no other, and every other live field is not paired at all; the     *)
(* scenario as stated.                                                     *)
(***************************************************************************)
C20_LostFieldPairingOfDistinctFields ==
    (ret.done /\ DistinctCached) =>
       /\ \A j \in 0..(Len(call.fields) - 1) :
             IF EqualsInSection(j) # {}
             THEN /\ EqualsInSection(j) = {OriginalIndex(j)}
                  /\ \A n \in 1..Len(ret.matches) :
                        ret.matches[n][2] = j
                           => ret.matches[n][1] = OriginalIndex(j)
                  /\ PairedInSection(j)
             ELSE Unpaired(j)
       /\ ScenarioB => ret.matches = <<<<0, 0>>>>

\* The scenario: City was lost, the section is [0, 2), Name is paired and the
\* three credit card fields of the live form are not
C20_Witness ==
    /\ ret.done
    /\ ScenarioB
    /\ Len(call.fields) = 4
    /\ ret.matches = <<<<0, 0>>>>
    /\ Unpaired(1) /\ Unpaired(2) /\ Unpaired(3)

(***************************************************************************)
(* RemoveDuplicateSuggestions on its own: every four vectors of one length *)
(* up to MaxSuggestions, over two values, two labels, two icons, two ids.  *)
(***************************************************************************)
DedupTexts == {<<"x">>, <<"y">>}

DedupInit ==
    /\ ManagerIdle
    /\ \E n \in 0..MaxSuggestions :
         \E values \in [1..n -> DedupTexts], labels \in [1..n -> DedupTexts],
            icons \in [1..n -> DedupTexts], unique_ids \in [1..n -> {1, 2}] :
           call = [op |-> "RemoveDuplicateSuggestions", values |-> values,
                   labels |-> labels, icons |-> icons, unique_ids |-> unique_ids]
    /\ ret = [done |-> FALSE]

CallRemoveDuplicateSuggestions ==
    /\ call.op = "RemoveDuplicateSuggestions"
    /\ ~ret.done
    /\ LET r == RemoveDuplicateSuggestions(call.values, call.labels, call.icons,
                                           call.unique_ids)
       IN ret' = [done |-> TRUE, values |-> r.values, labels |-> r.labels,
                  icons |-> r.icons, unique_ids |-> r.unique_ids,
                  again |-> [done |-> FALSE]]
    /\ UNCHANGED <<managerVars, call>>

\* RemoveDuplicateSuggestions called on the four vectors it left
CallRemoveDuplicateSuggestionsAgain ==
    /\ call.op = "RemoveDuplicateSuggestions"
    /\ ret.done
    /\ ~ret.again.done
    /\ LET r == RemoveDuplicateSuggestions(ret.values, ret.labels, ret.icons,
                                           ret.unique_ids)
       IN ret' = [ret EXCEPT !.again =
                    [done |-> TRUE, values |-> r.values, labels |-> r.labels,
                     icons |-> r.icons, unique_ids |-> r.unique_ids]]
    /\ UNCHANGED <<managerVars, call>>

DedupNext ==
    \/ CallRemoveDuplicateSuggestions
    \/ CallRemoveDuplicateSuggestionsAgain

SpecDedup == DedupInit /\ [][DedupNext]_vars

\* The input indices (1-based) whose (value, label) pair occurs at no earlier
\* index, and the m-th smallest of them
FirstOccurrences ==
    {i \in 1..Len(call.values) :
        \A h \in 1..(i - 1) :
           ~(call.values[h] = call.values[i] /\ call.labels[h] = call.labels[i])}

NthFirstOccurrence(m) ==
    CHOOSE i \in FirstOccurrences :
        Cardinality({h \in FirstOccurrences : h <= i}) = m

(***************************************************************************)
(* C10.  RemoveDuplicateSuggestions returns the subsequence of the entries *)
(* whose (value, label) pair did not occur at an earlier index: the kept   *)
(* entries are in input order, no two share a (value, label) pair, every   *)
(* distinct input pair is kept exactly once, and the icon and id kept for  *)
(* a pair are those of its first occurrence.                               *)
(***************************************************************************)
C10_DedupKeepsFirstOccurrences ==
    ret.done =>
      /\ Len(ret.values) = Cardinality(FirstOccurrences)
      /\ Len(ret.labels) = Len(ret.values)
      /\ Len(ret.icons) = Len(ret.values)
      /\ Len(ret.unique_ids) = Len(ret.values)
      /\ \A m \in 1..Len(ret.values) :
            LET i == NthFirstOccurrence(m) IN
            /\ ret.values[m] = call.values[i]
            /\ ret.labels[m] = call.labels[i]
            /\ ret.icons[m] = call.icons[i]
            /\ ret.unique_ids[m] = call.unique_ids[i]
      /\ \A m, n \in 1..Len(ret.values) :
            (ret.values[m] = ret.values[n] /\ ret.labels[m] = ret.labels[n])
               => m = n

\* A later duplicate with another icon and id was dropped from between two
\* kept entries.
C10_Witness ==
    /\ ret.done
    /\ Len(call.values) = 3
    /\ Len(ret.values) = 2
    /\ call.values[2] = call.values[1] /\ call.labels[2] = call.labels[1]
    /\ call.icons[2] # call.icons[1] /\ call.unique_ids[2] # call.unique_ids[1]
    /\ call.values[3] = call.values[1] /\ call.labels[3] # call.labels[1]

(***************************************************************************)
(* C11.  RemoveDuplicateSuggestions is idempotent: called on the four      *)
(* vectors that it left, it leaves the four of them as they are.           *)
(***************************************************************************)
C11_DedupIdempotent ==
    (ret.done /\ ret.again.done) =>
       /\ ret.again.values = ret.values
       /\ ret.again.labels = ret.labels
       /\ ret.again.icons = ret.icons
       /\ ret.again.unique_ids = ret.unique_ids

\* The first call dropped entries and kept two with the same value, and the
\* second call was made.
C11_Witness ==
    /\ ret.done /\ ret.again.done
    /\ Len(call.values) = 3
    /\ Len(ret.values) = 2
    /\ ret.values[1] = ret.values[2]
    /\ Len(ret.again.values) = 2


(***************************************************************************)
(* The codec on its own: up to MaxPackCalls PackGUIDs calls over three     *)
(* GUIDs and the two strings that are no GUID, and UnpackGUIDs of any int  *)
(* returned so far.  last_id is a function-local static, one counter for   *)
(* every manager of the process: the manager is a fresh one, or one        *)
(* constructed when the managers before it have issued the ids below       *)
(* FirstIds, or one that packed card guid-C as id 1 before the other       *)
(* managers issued ids up to FirstIds.  |ret| keeps the triples            *)
(* <<int returned, cc_guid, profile_guid>> of the calls made.              *)
(***************************************************************************)
CodecGuids == {"", "not-a-guid", "guid-A", "guid-B", "guid-C"}

FirstIds == {1, kUShortMax - 2, kUShortMax}

\* What PackGUIDs("guid-C", "") returns and leaves in a manager that makes
\* the first call of the process
CodecWithCardC ==
    PackGUIDs("guid-C", "",
        [guid_id_map |-> EmptyMap, id_guid_map |-> EmptyMap, last_id |-> 1])

CodecInit ==
    /\ enabled = TRUE
    /\ personal_data = FullStore
    /\ form_structures = <<>>
    /\ last_id \in FirstIds
    /\ \/ /\ guid_id_map = EmptyMap
          /\ id_guid_map = EmptyMap
          /\ ret = [packed |-> {}, calls |-> 0]
       \/ /\ last_id > 1
          /\ guid_id_map = CodecWithCardC.c.guid_id_map
          /\ id_guid_map = CodecWithCardC.c.id_guid_map
          /\ ret = [packed |-> {<<CodecWithCardC.id, "guid-C", "">>}, calls |-> 0]
    /\ autofilled_forms_signatures = <<>>
    /\ out = NoOutput
    /\ call = [op |-> "none"]

CallPackGUIDs(cc_guid, profile_guid) ==
    /\ ret.calls < MaxPackCalls
    /\ LET r == PackGUIDs(cc_guid, profile_guid, Codec) IN
         /\ SetCodec(r.c)
         /\ call' = [op |-> "PackGUIDs", cc_guid |-> cc_guid,
                     profile_guid |-> profile_guid, id |-> r.id]
         /\ ret' = [packed |-> ret.packed \cup {<<r.id, cc_guid, profile_guid>>},
                    calls |-> ret.calls + 1]
    /\ UNCHANGED <<enabled, personal_data, form_structures,
                   autofilled_forms_signatures, out>>

CallUnpackGUIDs(id) ==
    /\ IF call.op = "UnpackGUIDs" THEN call.id # id ELSE TRUE
    /\ LET r == UnpackGUIDs(id, Codec) IN
         call' = [op |-> "UnpackGUIDs", id |-> id, cc_guid |-> r[1],
                  profile_guid |-> r[2]]
    /\ UNCHANGED <<managerVars, ret>>

CodecNext ==
    \/ \E cc_guid \in CodecGuids, profile_guid \in CodecGuids :
          CallPackGUIDs(cc_guid, profile_guid)
    \/ \E t \in ret.packed : CallUnpackGUIDs(t[1])

SpecCodec == CodecInit /\ [][CodecNext]_vars

\* A GUID as it comes back: what is no GUID comes back absent
AsPacked(guid) == IF IsValidGUID(guid) THEN guid ELSE ""

\* Every id issued so far fits 16 bits
NoIdOverflow == last_id - 1 <= kUShortMax

C15_OverflowNeverMisdecodes ==
    ~NoIdOverflow =>
       \A t \in ret.packed :
          UnpackGUIDs(t[1], Codec) \in {<<AsPacked(t[2]), AsPacked(t[3])>>,
                                        <<"", "">>}


\* guid_id_map_ and id_guid_map_ are inverse bijections
MapsAreInverse ==
    /\ \A guid \in DOMAIN guid_id_map :
          /\ guid_id_map[guid] \in DOMAIN id_guid_map
          /\ id_guid_map[guid_id_map[guid]] = guid
    /\ \A id \in DOMAIN id_guid_map :
          /\ id_guid_map[id] \in DOMAIN guid_id_map
          /\ guid_id_map[id_guid_map[id]] = id

\* Every id of the maps is one the counter has passed, 1 at least; 0 is in
\* neither map and is what stands for no GUID in both directions
IdsWereIssued ==
    /\ last_id >= 1
    /\ \A id \in DOMAIN id_guid_map : 1 <= id /\ id < last_id
    /\ \A guid \in DOMAIN guid_id_map :
          IsValidGUID(guid) /\ 1 <= guid_id_map[guid] /\ guid_id_map[guid] < last_id
    /\ IDToGUID(0, Codec) = ""
    /\ \A guid \in CodecGuids \ DOMAIN guid_id_map :
          ~IsValidGUID(guid) => GUIDToID(guid, Codec) = [id |-> 0, c |-> Codec]

\* Asking again for a GUID of the map gives its id and changes nothing
AskingAgainChangesNothing ==
    \A guid \in DOMAIN guid_id_map :
       GUIDToID(guid, Codec) = [id |-> guid_id_map[guid], c |-> Codec]

\* What a PackGUIDs call does to the maps and the counter: the counter never
\* goes back, an entry is never changed or removed, the ids of the new
\* entries are those the counter passed in the call, and a call on GUIDs that
\* are all in the map leaves the maps and the counter as they were
PackKeepsWhatWasIssued ==
    call'.op = "PackGUIDs" =>
       /\ last_id' >= last_id
       /\ \A guid \in DOMAIN guid_id_map :
             guid \in DOMAIN guid_id_map' /\ guid_id_map'[guid] = guid_id_map[guid]
       /\ \A id \in DOMAIN id_guid_map :
             id \in DOMAIN id_guid_map' /\ id_guid_map'[id] = id_guid_map[id]
       /\ \A guid \in DOMAIN guid_id_map' \ DOMAIN guid_id_map :
             last_id <= guid_id_map'[guid] /\ guid_id_map'[guid] < last_id'
       /\ Cardinality(DOMAIN guid_id_map' \ DOMAIN guid_id_map) = last_id' - last_id
       /\ (\A guid \in {call'.cc_guid, call'.profile_guid} :
              ~IsValidGUID(guid) \/ guid \in DOMAIN guid_id_map)
             => UNCHANGED <<guid_id_map, id_guid_map, last_id>>

(***************************************************************************)
(* C28.  In every reachable state of the codec guid_id_map_ and            *)
(* id_guid_map_ are inverse bijections, every id in them is 1 at least and *)
(* was passed by the counter, which only grows, 0 is in neither map and    *)
(* stands for no GUID, and asking again for a GUID of the map returns its  *)
(* id and changes neither map nor the counter.                             *)
(***************************************************************************)
C28_MapsAreInverseBijections ==
    /\ [](MapsAreInverse /\ IdsWereIssued /\ AskingAgainChangesNothing)
    /\ [][PackKeepsWhatWasIssued]_vars

\* A PackGUIDs call on a GUID the maps already hold and a new one came back
\* with the old id of the first and a fresh id for the second
C28_Witness ==
    /\ call.op = "PackGUIDs"
    /\ ret.calls = 2
    /\ IsValidGUID(call.cc_guid) /\ IsValidGUID(call.profile_guid)
    /\ guid_id_map[call.profile_guid] = last_id - 1
    /\ guid_id_map[call.cc_guid] < last_id - 2
    /\ Cardinality(DOMAIN guid_id_map) = 3

(***************************************************************************)
(* The codec over the range of a half.  The manager holds card guid-A and  *)
(* profile guid-B under two ids of Halves, the values at the ends of the   *)
(* 16 bits and on both sides of the sign bit of the high word: the ids the *)
(* process-wide counter had reached when the manager first met each GUID.  *)
(* The calls are those of the codec on its own, on these GUIDs and on the  *)
(* absent one.                                                             *)
(***************************************************************************)
Halves == {1, 2, Pow2(kUShortDigits - 1) - 1, Pow2(kUShortDigits - 1),
           kUShortMax - 1, kUShortMax}

HalvesInit ==
    /\ enabled = TRUE
    /\ personal_data = FullStore
    /\ form_structures = <<>>
    /\ \E a \in Halves, b \in Halves :
          /\ a # b
          /\ guid_id_map = [g \in {"guid-A", "guid-B"} |->
                              IF g = "guid-A" THEN a ELSE b]
          /\ id_guid_map = [n \in {a, b} |-> IF n = a THEN "guid-A" ELSE "guid-B"]
          /\ last_id = (IF a > b THEN a ELSE b) + 1
    /\ autofilled_forms_signatures = <<>>
    /\ out = NoOutput
    /\ call = [op |-> "none"]
    /\ ret = [packed |-> {}, calls |-> 0]

\* The GUIDs of the calls: the two the manager holds, and none
HalvesGuids == {"", "guid-A", "guid-B"}

HalvesNext ==
    \/ \E cc_guid \in HalvesGuids, profile_guid \in HalvesGuids :
          CallPackGUIDs(cc_guid, profile_guid)
    \/ \E t \in ret.packed : CallUnpackGUIDs(t[1])

SpecHalves == HalvesInit /\ [][HalvesNext]_vars

\* The id GUIDToID returned for the GUID of a call made
HalfOf(guid) == IF IsValidGUID(guid) THEN guid_id_map[guid] ELSE 0

\* c * 2^16 + p as an int: the sum itself below 2^31, which is when
\* c < 2^15, and the sum less 2^32 from there on, computed as
\* (c - 2^16) * 2^16 + p to stay within the integers of the checker
WrappedInt32(c, p) ==
    IF c < Pow2(kUShortDigits - 1)
    THEN c * Pow2(kUShortDigits) + p
    ELSE (c - Pow2(kUShortDigits)) * Pow2(kUShortDigits) + p

(***************************************************************************)
(* C29.  For a payment half c and an identity half p of 0..65535 the int   *)
(* PackGUIDs returns is c * 2^16 + p wrapped to 32 bits, negative exactly  *)
(* when c >= 32768; its high word is c and its low word is p, and          *)
(* UnpackGUIDs gives back the GUIDs of c and of p, for a negative int too. *)
(***************************************************************************)
C29_PackedWordsAreTheHalves ==
    \A t \in ret.packed :
          /\ HalfOf(t[2]) \in 0..kUShortMax /\ HalfOf(t[3]) \in 0..kUShortMax
          /\ t[1] = WrappedInt32(HalfOf(t[2]), HalfOf(t[3]))
          /\ -Pow2(kUShortDigits - 1) <= t[1] \div Pow2(kUShortDigits)
          /\ t[1] \div Pow2(kUShortDigits) < Pow2(kUShortDigits - 1)
          /\ (t[1] < 0) = (HalfOf(t[2]) >= Pow2(kUShortDigits - 1))
          /\ (t[1] \div Pow2(kUShortDigits)) % Pow2(kUShortDigits) = HalfOf(t[2])
          /\ t[1] % Pow2(kUShortDigits) = HalfOf(t[3])
          /\ UnpackGUIDs(t[1], Codec) =
                <<IDToGUID(HalfOf(t[2]), Codec), IDToGUID(HalfOf(t[3]), Codec)>>
          /\ (call.op = "UnpackGUIDs" /\ call.id = t[1])
                => /\ call.cc_guid = AsPacked(t[2])
                   /\ call.profile_guid = AsPacked(t[3])

\* The int of the payment half 32768 and the identity half 65535, the
\* smallest negative high word with every bit of the low word set, was
\* unpacked
C29_Witness ==
    /\ call.op = "UnpackGUIDs"
    /\ call.id = WrappedInt32(Pow2(kUShortDigits - 1), kUShortMax)
    /\ call.id < 0
    /\ IsValidGUID(call.cc_guid) /\ IsValidGUID(call.profile_guid)
    /\ guid_id_map[call.cc_guid] = Pow2(kUShortDigits - 1)
    /\ guid_id_map[call.profile_guid] = kUShortMax

(***************************************************************************)
(* Live fields and the record store of the requests below.                 *)
(***************************************************************************)
TextField(name) == [name |-> name, form_control_type |-> "text", max_length |-> 0]

\* A live field: the value is what the user typed
LiveField(name, value, is_autofilled) ==
    [name |-> name, form_control_type |-> "text", max_length |-> 0,
     value |-> value, is_autofilled |-> is_autofilled]

\* The codec after a query on a profile field and one on a credit card field
\* offered every record: guid-A is 1, guid-B is 2, guid-C is 3
CodecAfterQueries ==
    PackGUIDs("guid-C", "",
        PackGUIDs("", "guid-B",
            PackGUIDs("", "guid-A",
                [guid_id_map |-> EmptyMap, id_guid_map |-> EmptyMap,
                 last_id |-> 1]).c).c).c

(***************************************************************************)
(* Fill requests on their own.  The cache holds one form of up to          *)
(* MaxFillCached fields, each a name field, a field of unknown type or a   *)
(* card number field (a form may repeat a field); the request carries a    *)
(* live form of that identity with up to MaxFillLive of these fields in    *)
(* any order, each autofilled or not, any field of the live form as the    *)
(* initiating one, and the id of profile guid-A or of card guid-C.         *)
(***************************************************************************)
FillCachedFields ==
    {[name |-> "fname", form_control_type |-> "text", max_length |-> 0,
      type |-> "NAME_FIRST"],
     [name |-> "misc", form_control_type |-> "text", max_length |-> 0,
      type |-> "UNKNOWN_TYPE"],
     [name |-> "ccnum", form_control_type |-> "text", max_length |-> 0,
      type |-> "CREDIT_CARD_NUMBER"]}

FillNames == {"fname", "misc", "ccnum"}

FillLiveFields ==
    {LiveField(name, <<"?">>, is_autofilled) :
        name \in FillNames, is_autofilled \in BOOLEAN}

FillInit ==
    /\ enabled = TRUE
    /\ personal_data = FullStore
    /\ \E fields \in SeqsOf(FillCachedFields, 1, MaxFillCached) :
         form_structures = <<[name |-> "checkout", https |-> TRUE,
                              method |-> "POST", fields |-> fields]>>
    /\ guid_id_map = CodecAfterQueries.guid_id_map
    /\ id_guid_map = CodecAfterQueries.id_guid_map
    /\ last_id = CodecAfterQueries.last_id
    /\ autofilled_forms_signatures = <<>>
    /\ out = NoOutput
    /\ call = [op |-> "none"]
    /\ ret = [done |-> FALSE]

FillNext ==
    \E fields \in SeqsOf(FillLiveFields, 1, MaxFillLive),
       unique_id \in {ShiftOr(0, 1), ShiftOr(3, 0)} :
       \E field \in {fields[j] : j \in 1..Len(fields)} :
          OnFillAutoFillFormData(
              [name |-> "checkout", https |-> TRUE, method |-> "POST",
               fields |-> fields], field, unique_id)

SpecFill == FillInit /\ [][FillNext]_vars

\* The live indices (from 0) that the full-section loop of the last fill
\* matched to a cached field of the section that has a group
FilledLiveIndices ==
    LET matches == FillMatches(out.seen.cached, out.form.fields,
                               out.seen.section_start, out.seen.section_end)
    IN {matches[n][2] : n \in {m \in 1..Len(matches) :
           /\ out.seen.section_start <= matches[m][1]
           /\ matches[m][1] < out.seen.section_end
           /\ FieldEquals(out.seen.cached[matches[m][1] + 1],
                          out.form.fields[matches[m][2] + 1])
           /\ Group(out.seen.cached[matches[m][1] + 1].type) # "NO_GROUP"}}

\* The response has the fields of the request, in the request's order
SameFieldsInOrder ==
    /\ Len(out.result.fields) = Len(out.form.fields)
    /\ \A j \in 1..Len(out.form.fields) :
          /\ FieldEquals(out.result.fields[j], out.form.fields[j])
          /\ out.result.fields[j].is_autofilled = out.form.fields[j].is_autofilled

(***************************************************************************)
(* C5.  In a full-section fill (the section is not already filled) the     *)
(* response has the fields of the request in the same order, and a live    *)
(* field's value differs from the request only if the field has a          *)
(* correspondence to a cached field of [section_start, section_end) whose  *)
(* type group is not NO_GROUP.                                             *)
(***************************************************************************)
C5_FullFillFrame ==
    (out.kind = "filled" /\ ~out.section_filled) =>
       /\ SameFieldsInOrder
       /\ \A j \in 1..Len(out.form.fields) :
             out.result.fields[j].value # out.form.fields[j].value
                => (j - 1) \in FilledLiveIndices

\* A full-section fill that wrote one live field and left alone a live field
\* whose cached equal has no group.
C5_Witness ==
    /\ out.kind = "filled" /\ ~out.section_filled
    /\ Len(out.form.fields) = 2
    /\ out.result.fields[1].value # out.form.fields[1].value
    /\ out.form.fields[2].name = "misc"
    /\ out.result.fields[2].value = out.form.fields[2].value
    /\ \E k \in out.seen.section_start .. (out.seen.section_end - 1) :
          FieldEquals(out.seen.cached[k + 1], out.form.fields[2])

\* The DCHECK on the group of |type| at the call of FillFormField (for a
\* profile) or FillCreditCardFormField (for a credit card) of the last fill
GroupAssertionHolds(type) ==
    IF out.seen.profile # 0
    THEN Group(type) # "CREDIT_CARD"
    ELSE Group(type) = "CREDIT_CARD"

\* The cached types the last fill resolved a value for: the type of the
\* initiating field when the section was filled already, and otherwise the
\* types of the matched cached fields that have a group
ResolvedTypes ==
    IF out.section_filled
    THEN {out.seen.cached[out.seen.field + 1].type : j \in
            {h \in 1..Len(out.form.fields) :
                FieldEquals(out.form.fields[h], out.field)}}
    ELSE LET matches == FillMatches(out.seen.cached, out.form.fields,
                                    out.seen.section_start, out.seen.section_end)
         IN {out.seen.cached[matches[n][1] + 1].type : n \in
               {m \in 1..Len(matches) :
                  Group(out.seen.cached[matches[m][1] + 1].type) # "NO_GROUP"}}

(***************************************************************************)
(* C37.  The assertions on the type group never fail in a fill: a profile  *)
(* fills only from cached types that are not of the credit card group and  *)
(* a credit card only from types of the credit card group, in the loop     *)
(* over the section and for the one field written when the section is      *)
(* filled already, for every fill request.                                 *)
(***************************************************************************)
C37_GroupAssertionsHold ==
    out.kind = "filled" => \A type \in ResolvedTypes : GroupAssertionHolds(type)

(***************************************************************************)
(* C6.  When the section of the initiating field is already filled, a fill *)
(* writes at most one live field, the first one equal to the field the     *)
(* user is editing, and every other live field of the response is that of  *)
(* the request.                                                            *)
(***************************************************************************)
C6_FilledSectionFrame ==
    (out.kind = "filled" /\ out.section_filled) =>
       /\ SameFieldsInOrder
       /\ \A j \in 1..Len(out.form.fields) :
             out.result.fields[j].value # out.form.fields[j].value
                => /\ FieldEquals(out.form.fields[j], out.field)
                   /\ \A h \in 1..(j - 1) :
                         ~FieldEquals(out.form.fields[h], out.field)

\* An already-filled section: the edited field was written and an autofilled
\* sibling of a type with a group kept its value.
C6_Witness ==
    /\ out.kind = "filled" /\ out.section_filled
    /\ Len(out.form.fields) = 2
    /\ \E j, h \in 1..2 :
          /\ j # h
          /\ out.result.fields[j].value # out.form.fields[j].value
          /\ out.result.fields[h].value = out.form.fields[h].value
          /\ out.form.fields[h].is_autofilled
          /\ \E k \in out.seen.section_start .. (out.seen.section_end - 1) :
                /\ FieldEquals(out.seen.cached[k + 1], out.form.fields[h])
                /\ Group(out.seen.cached[k + 1].type) # "NO_GROUP"


(***************************************************************************)
(* The value resolver and the credit card suggestions on their own.  The   *)
(* store holds one profile, with a phone number of ten digits, of seven or *)
(* none, and up to MaxValueCards credit cards, each with or without a      *)
(* number, a month and a year.  The calls are FillFormField and            *)
(* FillCreditCardFormField for any record, type and live field, the        *)
(* field being a text, select-one or month control of some max_length, and *)
(* GetCreditCardSuggestions for a field followed by the fill of that field *)
(* from the record of one of the suggestions.                              *)
(***************************************************************************)
ValueProfile(number) ==
    [guid |-> "guid-A",
     text |-> [t \in FieldTypes |->
                 CASE t = "NAME_FIRST" -> <<"A", "l">>
                   [] t = "PHONE_HOME_NUMBER" -> number
                   [] OTHER -> NoText]]

ValueCard(guid, number, month, year) ==
    [guid |-> guid,
     type |-> <<"v", "i", "s", "a", "C", "C">>,
     text |-> [t \in FieldTypes |->
                 CASE t = "CREDIT_CARD_NUMBER" -> number
                   [] t = "CREDIT_CARD_EXP_MONTH" -> month
                   [] t = "CREDIT_CARD_EXP_4_DIGIT_YEAR" -> year
                   [] OTHER -> NoText]]

ValueProfiles ==
    {ValueProfile(<<"5", "5", "5", "1", "2", "3", "4", "5", "6", "7">>),
     ValueProfile(<<"5", "5", "5", "1", "2", "3", "4">>),
     ValueProfile(NoText)}

ValueCards ==
    {CardC,
     ValueCard("guid-D", <<"4", "2", "2", "2">>, NoText, <<"2", "0", "1", "3">>),
     ValueCard("guid-E", <<"5", "1", "0", "5", "1">>, <<"1", "2">>, NoText),
     ValueCard("guid-F", NoText, NoText, NoText)}

ValueFields ==
    {[name |-> "f", form_control_type |-> control, max_length |-> max_length,
      value |-> value, is_autofilled |-> FALSE] :
        control \in {"text", "select-one", "month"},
        max_length \in {0, kPrefixLength, kSuffixLength, 20},
        value \in {NoText, <<"4">>}}

CreditCardTypes == {t \in FieldTypes : Group(t) = "CREDIT_CARD"}

ValueInit ==
    /\ enabled = TRUE
    /\ \E profile \in ValueProfiles,
          credit_cards \in SeqsOf(ValueCards, 1, MaxValueCards) :
          personal_data = [profiles |-> <<profile>>, credit_cards |-> credit_cards]
    /\ form_structures = <<>>
    /\ guid_id_map = EmptyMap
    /\ id_guid_map = EmptyMap
    /\ last_id = 1
    /\ autofilled_forms_signatures = <<>>
    /\ out = NoOutput
    /\ call = [op |-> "none"]
    /\ ret = [done |-> FALSE]

CallFillFormField(type, field) ==
    /\ call.op = "none"
    /\ call' = [op |-> "FillFormField", type |-> type, field |-> field]
    /\ ret' = [done |-> TRUE,
               field |-> FillFormField(personal_data.profiles[1], type, field)]
    /\ UNCHANGED managerVars

CallFillCreditCardFormField(n, type, field) ==
    /\ call.op = "none"
    /\ call' = [op |-> "FillCreditCardFormField", credit_card |-> n,
                type |-> type, field |-> field]
    /\ ret' = [done |-> TRUE,
               field |-> FillCreditCardFormField(personal_data.credit_cards[n],
                                                 type, field)]
    /\ UNCHANGED managerVars

CallGetCreditCardSuggestions(type, field) ==
    /\ call.op = "none"
    /\ \E s \in {GetCreditCardSuggestions(field, type, Codec)} :
         /\ SetCodec(s.c)
         /\ ret' = [done |-> TRUE, values |-> s.values, labels |-> s.labels,
                    icons |-> s.icons, unique_ids |-> s.unique_ids]
    /\ call' = [op |-> "GetCreditCardSuggestions", type |-> type, field |-> field]
    /\ UNCHANGED <<enabled, personal_data, form_structures,
                   autofilled_forms_signatures, out>>

\* The fill that follows the choice of suggestion n: the record is looked up
\* by the id of the suggestion, as OnFillAutoFillFormData does, and the field
\* of the query is filled with the type of the query
FillSuggested(n) ==
    /\ call.op = "GetCreditCardSuggestions"
    /\ n \in 1..Len(ret.unique_ids)
    /\ \E credit_card \in {FindRecord(personal_data.credit_cards,
                              UnpackGUIDs(ret.unique_ids[n], Codec)[1])} :
         /\ credit_card # 0
         /\ call' = [op |-> "FillSuggested", type |-> call.type,
                     field |-> call.field, credit_card |-> credit_card,
                     suggested |-> ret.values[n]]
         /\ ret' = [done |-> TRUE,
                    field |-> FillCreditCardFormField(
                                 personal_data.credit_cards[credit_card],
                                 call.type, call.field)]
    /\ UNCHANGED managerVars

ValueNext ==
    \/ \E type \in FieldTypes \ CreditCardTypes, field \in ValueFields :
          CallFillFormField(type, field)
    \/ \E n \in 1..Len(personal_data.credit_cards),
          type \in CreditCardTypes, field \in ValueFields :
          CallFillCreditCardFormField(n, type, field)
    \/ \E type \in CreditCardTypes, field \in ValueFields :
          CallGetCreditCardSuggestions(type, field)
    \/ \E n \in 1..MaxValueCards : FillSuggested(n)

SpecValue == ValueInit /\ [][ValueNext]_vars

\* The record a suggestion of the last GetCreditCardSuggestions call names
SuggestedCard(n) ==
    personal_data.credit_cards[
        FindRecord(personal_data.credit_cards,
                   UnpackGUIDs(ret.unique_ids[n], Codec)[1])]

\* The credit card of the last fill
FilledCard == personal_data.credit_cards[call.credit_card]

\* Every suggestion for a card number field shows the masked number of its
\* record and not the stored number
SuggestionsAreMasked ==
    (call.op = "GetCreditCardSuggestions" /\ call.type = "CREDIT_CARD_NUMBER")
       => \A n \in 1..Len(ret.values) :
             /\ ret.values[n] = ObfuscatedNumber(SuggestedCard(n))
             /\ ret.values[n] # GetFieldText(SuggestedCard(n), call.type)

C17_MonthControlAllOrNothing ==
    (call.op \in {"FillCreditCardFormField", "FillSuggested"}
       /\ call.field.form_control_type = "month")
       => LET year == GetFieldText(FilledCard, "CREDIT_CARD_EXP_4_DIGIT_YEAR")
              month == GetFieldText(FilledCard, "CREDIT_CARD_EXP_MONTH")
          IN IF year # NoText /\ month # NoText
             THEN ret.field.value = year \o <<"-">> \o month
             ELSE ret.field.value = call.field.value

\* A month control that held text was filled from a card that has a year and
\* no month, and kept its text
C17_Witness ==
    /\ call.op = "FillCreditCardFormField"
    /\ call.field.form_control_type = "month"
    /\ call.field.value # NoText
    /\ GetFieldText(FilledCard, "CREDIT_CARD_EXP_4_DIGIT_YEAR") # NoText
    /\ GetFieldText(FilledCard, "CREDIT_CARD_EXP_MONTH") = NoText
    /\ ret.field.value = call.field.value

\* The types of the expiration date of a card
ExpirationTypes == {"CREDIT_CARD_EXP_MONTH", "CREDIT_CARD_EXP_4_DIGIT_YEAR"}

\* Year, "-" and month of the card of the last fill
YearMonth ==
    GetFieldText(FilledCard, "CREDIT_CARD_EXP_4_DIGIT_YEAR")
       \o <<"-">> \o GetFieldText(FilledCard, "CREDIT_CARD_EXP_MONTH")

\* The last call filled a field from a card
CardFill == call.op \in {"FillCreditCardFormField", "FillSuggested"}

(***************************************************************************)
(* C33 as stated: year and month are written together only to a month      *)
(* control whose cached type is an expiration type; a month control whose  *)
(* cached type is another payment type is given the stored text of that    *)
(* type.                                                                   *)
(***************************************************************************)
C33_YearMonthOnlyForExpirationType ==
    CardFill =>
       /\ (ret.field.value = YearMonth /\ ret.field.value # call.field.value)
             => /\ call.field.form_control_type = "month"
                /\ call.type \in ExpirationTypes
       /\ (call.field.form_control_type = "month"
             /\ call.type \notin ExpirationTypes)
             => ret.field.value = GetFieldText(FilledCard, call.type)

(***************************************************************************)
(* C33, amended: year and month are written together only to a month       *)
(* control, and to every month control, whatever its cached payment type,  *)
(* when the card has both; a month control is never given the stored text  *)
(* of its type, and a text field always is.                                *)
(***************************************************************************)
C33_YearMonthForEveryMonthControl ==
    CardFill =>
       /\ (ret.field.value = YearMonth /\ ret.field.value # call.field.value)
             => call.field.form_control_type = "month"
       /\ call.field.form_control_type = "month"
             => /\ ret.field.value \in {YearMonth, call.field.value}
                /\ (ret.field.value = YearMonth) =
                      (/\ GetFieldText(FilledCard, "CREDIT_CARD_EXP_4_DIGIT_YEAR")
                             # NoText
                       /\ GetFieldText(FilledCard, "CREDIT_CARD_EXP_MONTH")
                             # NoText)
       /\ call.field.form_control_type = "text"
             => ret.field.value = GetFieldText(FilledCard, call.type)

\* A month control whose cached type is the card number was filled from a
\* card that has a number, a year and a month: it holds year and month, not
\* the number
C33_Witness ==
    /\ call.op = "FillCreditCardFormField"
    /\ call.field.form_control_type = "month"
    /\ call.type = "CREDIT_CARD_NUMBER"
    /\ GetFieldText(FilledCard, "CREDIT_CARD_NUMBER") # NoText
    /\ ret.field.value = YearMonth
    /\ ret.field.value # GetFieldText(FilledCard, call.type)

\* The stored number of the profile for the type of the last FillFormField
StoredNumber == GetFieldText(personal_data.profiles[1], call.type)

(***************************************************************************)
(* C18.  FillFormField for a type of the phone number subgroup: when the   *)
(* stored number has kPrefixLength + kSuffixLength digits, a field whose   *)
(* max_length is kPrefixLength gets the first kPrefixLength digits and one *)
(* whose max_length is kSuffixLength gets the kSuffixLength digits after   *)
(* them, the two making up the stored number; any other field, and any     *)
(* field when the number has another length, gets the stored number.  For  *)
(* 5551234567: max_length 7 gives 1234567, 3 gives 555, 20 gives all.      *)
(***************************************************************************)
C18_PhoneSegments ==
    (call.op = "FillFormField" /\ Subgroup(call.type) = "PHONE_NUMBER")
       => /\ IF Len(StoredNumber) = kPrefixLength + kSuffixLength
                /\ call.field.max_length = kPrefixLength
             THEN /\ ret.field.value = SubSeq(StoredNumber, 1, kPrefixLength)
                  /\ ret.field.value
                        \o SubSeq(StoredNumber, kPrefixLength + 1, Len(StoredNumber))
                     = StoredNumber
             ELSE IF Len(StoredNumber) = kPrefixLength + kSuffixLength
                     /\ call.field.max_length = kSuffixLength
             THEN /\ ret.field.value =
                        SubSeq(StoredNumber, kPrefixLength + 1, Len(StoredNumber))
                  /\ SubSeq(StoredNumber, 1, kPrefixLength) \o ret.field.value
                     = StoredNumber
             ELSE ret.field.value = StoredNumber
          /\ StoredNumber = <<"5", "5", "5", "1", "2", "3", "4", "5", "6", "7">>
                => /\ call.field.max_length = 7
                      => ret.field.value = <<"1", "2", "3", "4", "5", "6", "7">>
                   /\ call.field.max_length = 3
                      => ret.field.value = <<"5", "5", "5">>
                   /\ call.field.max_length = 20
                      => ret.field.value = StoredNumber

\* The suffix box of a split phone number was filled with the last seven
\* digits of 5551234567
C18_Witness ==
    /\ call.op = "FillFormField" /\ call.type = "PHONE_HOME_NUMBER"
    /\ Len(StoredNumber) = 10
    /\ call.field.max_length = 7
    /\ ret.field.value = <<"1", "2", "3", "4", "5", "6", "7">>


(***************************************************************************)
(* The suggestion query called on its own: the cache holds forms of a page *)
(* out of four, a checkout form, the same form after the page changed it   *)
(* (same identity, other fields), a payment form of a page that is not     *)
(* HTTPS, and a search form of method GET.  The store holds every record,  *)
(* profile guid-A alone, or nothing.  The renderer asks about a live form  *)
(* that is one of the four, with all of its fields autofilled or none; the *)
(* queried field holds nothing, the letter a or the letter z.              *)
(***************************************************************************)
PageForm(name, https, method, names) ==
    [name |-> name, https |-> https, method |-> method,
     fields |-> [i \in 1..Len(names) |-> LiveField(names[i], <<"?">>, FALSE)]]

Checkout == PageForm("checkout", TRUE, "POST", <<"fname", "city", "ccnum">>)

CheckoutReparsed == PageForm("checkout", TRUE, "POST", <<"fname", "ccnum">>)

Pay == PageForm("pay", FALSE, "POST", <<"fname", "ccnum">>)

Search == PageForm("search", TRUE, "GET", <<"fname", "misc">>)

PageForms == {Checkout, CheckoutReparsed, Pay, Search}

Stores ==
    {FullStore, [profiles |-> <<ProfileA>>, credit_cards |-> <<>>],
     [profiles |-> <<>>, credit_cards |-> <<>>]}

\* |form| with the is_autofilled flag of every field set to |filled|
WithAutofilled(form, filled) ==
    [form EXCEPT !.fields =
        [i \in 1..Len(form.fields) |->
            [form.fields[i] EXCEPT !.is_autofilled = filled]]]

QueryTexts == {NoText, <<"a">>, <<"z">>}

QueryInit ==
    /\ enabled \in BOOLEAN
    /\ personal_data \in Stores
    /\ form_structures \in
          {ParseForms(<<>>, forms) : forms \in SeqsOf(PageForms, 0, MaxQueryCached)}
    /\ guid_id_map = EmptyMap
    /\ id_guid_map = EmptyMap
    /\ last_id = 1
    /\ autofilled_forms_signatures = <<>>
    /\ out = NoOutput
    /\ call = [op |-> "none"]
    /\ ret = [done |-> FALSE]

QueryNext ==
    \/ \E form \in PageForms, filled \in BOOLEAN, value \in QueryTexts :
          \E j \in 1..Len(form.fields) :
             OnQueryFormFieldAutoFill(WithAutofilled(form, filled),
                                      [form.fields[j] EXCEPT !.value = value])
    \/ HandOff

SpecQuery == QueryInit /\ [][QueryNext]_vars

\* The text of every record of the store, as it is stored and as it is shown
RecordValues ==
    {GetFieldText(personal_data.profiles[n], type) :
        n \in 1..Len(personal_data.profiles), type \in FieldTypes}
    \cup {GetFieldText(personal_data.credit_cards[n], type) :
            n \in 1..Len(personal_data.credit_cards), type \in FieldTypes}
    \cup {ObfuscatedNumber(personal_data.credit_cards[n]) :
            n \in 1..Len(personal_data.credit_cards)}

\* The query that |out| answers is disallowed: its cached form is not
\* auto-fillable as a form of method POST, or its field is a credit card field
\* and the cached form is not HTTPS.  (A query leaves the cache as it is.)
QueryDisallowedText ==
    LET found == FindCachedFormAndField(out.form, out.field)
        form_structure == form_structures[found.form]
        type == form_structure.fields[found.field + 1].type
    IN IF ~IsAutoFillable(form_structure, TRUE)
       THEN <<"IDS_AUTOFILL_WARNING_FORM_DISABLED">>
       ELSE IF Group(type) = "CREDIT_CARD" /\ ~form_structure.https
       THEN <<"IDS_AUTOFILL_WARNING_INSECURE_CONNECTION">>
       ELSE NoText

\* The type of the cached field that the query of |out| is about
QueriedType ==
    LET found == FindCachedFormAndField(out.form, out.field) IN
    form_structures[found.form].fields[found.field + 1].type

\* The n-th candidate of the query of |out| is a record of the store: its id
\* unpacks to the record's GUID and its value, label and icon are the record's
CandidateIsRecord(n) ==
    LET guids == UnpackGUIDs(out.candidates.unique_ids[n], Codec)
        type == QueriedType
    IN \/ \E p \in 1..Len(personal_data.profiles) :
            LET profile == personal_data.profiles[p] IN
            /\ guids = <<"", profile.guid>>
            /\ out.candidates.values[n] = GetFieldText(profile, type)
            /\ out.candidates.labels[n] = InferredLabel(profile, type)
            /\ out.candidates.icons[n] = NoText
       \/ \E k \in 1..Len(personal_data.credit_cards) :
            LET credit_card == personal_data.credit_cards[k] IN
            /\ guids = <<credit_card.guid, "">>
            /\ out.candidates.values[n] =
                  IF type = "CREDIT_CARD_NUMBER"
                  THEN ObfuscatedNumber(credit_card)
                  ELSE GetFieldText(credit_card, type)
            /\ out.candidates.labels[n] =
                  kCreditCardPrefix \o LastFourDigits(credit_card)
            /\ out.candidates.icons[n] = credit_card.type

\* C12: on every path through a suggestion query the four vectors handed off
\* have the same length, and index i of each is about the same suggestion:
\* the warning entry, or one candidate's value and id with that candidate's
\* label and icon or with both blanked, the candidate being a record of the
\* store with its value, label, icon and id.
C12_VectorsInLockstep ==
    out.kind = "suggestions" =>
       /\ Len(out.labels) = Len(out.values)
       /\ Len(out.icons) = Len(out.values)
       /\ Len(out.unique_ids) = Len(out.values)
       /\ Len(out.candidates.labels) = Len(out.candidates.values)
       /\ Len(out.candidates.icons) = Len(out.candidates.values)
       /\ Len(out.candidates.unique_ids) = Len(out.candidates.values)
       /\ \A n \in 1..Len(out.candidates.values) : CandidateIsRecord(n)
       /\ \A i \in 1..Len(out.values) :
             \/ /\ out.warning # NoWarning
                /\ out.values[i] = GetStringUTF16(out.warning)
                /\ out.labels[i] = NoText
                /\ out.icons[i] = NoText
                /\ out.unique_ids[i] = -1
             \/ \E n \in 1..Len(out.candidates.values) :
                   /\ out.warning = NoWarning
                   /\ out.values[i] = out.candidates.values[n]
                   /\ out.unique_ids[i] = out.candidates.unique_ids[n]
                   /\ \/ /\ out.labels[i] = out.candidates.labels[n]
                         /\ out.icons[i] = out.candidates.icons[n]
                      \/ /\ out.labels[i] = NoText
                         /\ out.icons[i] = NoText

\* Two profiles were suggested for a field, with different values and ids and
\* with their labels
C12_Witness ==
    /\ out.kind = "suggestions"
    /\ Len(out.values) = 2
    /\ out.values[1] # out.values[2]
    /\ out.unique_ids[1] # out.unique_ids[2]
    /\ out.labels[1] # NoText
    /\ out.labels[2] # NoText

\* C9: in a suggestion query with at least one candidate found that is
\* disallowed (the cached form is not auto-fillable with POST required, or the
\* field is a credit card field and the cached form is not HTTPS), what is
\* handed off is exactly one entry, the warning text with an empty label, an
\* empty icon and the id -1, which is no value of a record and no id packed for
\* a candidate; with no candidate found what is handed off is empty and there
\* is no warning.
C9_WarningReplacesCandidates ==
    out.kind = "suggestions" =>
       /\ (out.candidates.values # <<>> /\ QueryDisallowedText # NoText) =>
              /\ out.values = <<QueryDisallowedText>>
              /\ out.labels = <<NoText>>
              /\ out.icons = <<NoText>>
              /\ out.unique_ids = <<-1>>
              /\ out.values[1] \notin RecordValues
              /\ \A n \in 1..Len(out.candidates.unique_ids) :
                    out.unique_ids[1] # out.candidates.unique_ids[n]
       /\ out.candidates.values = <<>> =>
              /\ out.values = <<>>
              /\ out.labels = <<>>
              /\ out.icons = <<>>
              /\ out.unique_ids = <<>>
              /\ out.warning = NoWarning

\* A credit card field of the payment form, which is not HTTPS, was queried,
\* the card of the store was a candidate, and the warning was handed off
C9_Witness ==
    /\ out.kind = "suggestions"
    /\ out.form.name = "pay"
    /\ out.field.name = "ccnum"
    /\ Len(out.candidates.values) = 1
    /\ out.candidates.values[1] = ObfuscatedNumber(CardC)
    /\ out.values = <<<<"IDS_AUTOFILL_WARNING_INSECURE_CONNECTION">>>>

(***************************************************************************)
(* The manager as a whole, from its construction.  The forms of a document *)
(* are the checkout form, the checkout form after the page changed it and  *)
(* the search form; the renderer asks about and fills these forms as they  *)
(* are parsed, with an id that a query handed out or the warning's -1.     *)
(***************************************************************************)
(***************************************************************************)
(* Fill requests after the store changed.  The three records were packed   *)
(* by earlier queries, so the maps hold their ids; the store now holds     *)
(* every record, profile guid-A alone, or nothing.  The renderer sends the *)
(* id of one of the three records, 0, the warning's -1, or an id that      *)
(* names card guid-C and profile guid-A at once, for any field of a live   *)
(* form of the page.                                                       *)
(***************************************************************************)
StaleInit ==
    /\ enabled = TRUE
    /\ personal_data \in Stores
    /\ form_structures \in
          {ParseForms(<<>>, forms) : forms \in SeqsOf(PageForms, 0, MaxQueryCached)}
    /\ guid_id_map = CodecAfterQueries.guid_id_map
    /\ id_guid_map = CodecAfterQueries.id_guid_map
    /\ last_id = CodecAfterQueries.last_id
    /\ autofilled_forms_signatures = <<>>
    /\ out = NoOutput
    /\ call = [op |-> "none"]
    /\ ret = [done |-> FALSE]

FillIds ==
    {ShiftOr(0, 1), ShiftOr(0, 2), ShiftOr(3, 0), ShiftOr(3, 1), 0, -1}

StaleNext ==
    \E form \in PageForms, unique_id \in FillIds :
       \E j \in 1..Len(form.fields) :
          OnFillAutoFillFormData(form, form.fields[j], unique_id)

SpecStale == StaleInit /\ [][StaleNext]_vars

\* The fill request |unique_id| names no record that is in the store: neither
\* of the two GUIDs it unpacks to is the GUID of a stored record
NamesNoRecord(unique_id) ==
    LET guids == UnpackGUIDs(unique_id, Codec) IN
    /\ \A n \in 1..Len(personal_data.profiles) :
          personal_data.profiles[n].guid # guids[2]
    /\ \A n \in 1..Len(personal_data.credit_cards) :
          personal_data.credit_cards[n].guid # guids[1]

DocumentForms == {Checkout, CheckoutReparsed, Search}

\* The ids the renderer can send back: the warning's -1 and the id of every
\* record that was packed so far
KnownIds ==
    {-1} \cup {ShiftOr(0, guid_id_map[guid]) :
                 guid \in DOMAIN guid_id_map \cap {ProfileA.guid, ProfileB.guid}}
         \cup {ShiftOr(guid_id_map[guid], 0) :
                 guid \in DOMAIN guid_id_map \cap {CardC.guid}}

Init ==
    /\ ManagerIdle
    /\ call = [op |-> "none"]
    /\ ret = [done |-> FALSE]

Next ==
    \/ \E form \in DocumentForms :
          /\ Len(form_structures) < MaxCachedForms
          /\ OnFormsSeen(<<form>>)
    \/ \E form \in DocumentForms, other \in DocumentForms :
          /\ form.name # other.name
          /\ Len(form_structures) + 1 < MaxCachedForms
          /\ OnFormsSeen(<<form, other>>)
    \/ DidNavigateMainFramePostCommit
    \/ \E form \in DocumentForms, value \in {NoText, <<"z">>} :
          \E j \in 1..Len(form.fields) :
             OnQueryFormFieldAutoFill(form, [form.fields[j] EXCEPT !.value = value])
    \/ \E form \in DocumentForms, unique_id \in KnownIds :
          \E j \in 1..Len(form.fields) :
             /\ \/ Len(autofilled_forms_signatures) < MaxSignatures
                \/ ~FillResult(form, form.fields[j], unique_id).pushed
             /\ OnFillAutoFillFormData(form, form.fields[j], unique_id)
    \/ \E form \in DocumentForms,
          user_submitted, off_the_record, imported \in BOOLEAN :
          OnFormSubmitted(form, user_submitted, off_the_record, imported)
    \/ \E value \in BOOLEAN : SetAutoFillEnabled(value)
    \/ \E data \in {FullStore, [profiles |-> <<>>, credit_cards |-> <<>>]} :
          PersonalDataChanged(data)
    \/ HandOff

Spec == Init /\ [][Next]_vars

\* C7: after any sequence of forms-seen events within one document the cache
\* holds at most one entry for a form (no two entries are equal to the same
\* live form), and the lookup of a form that was just parsed returns the entry
\* of that parse.
C7_CacheOneEntryPerForm ==
    /\ \A m, n \in 1..Len(form_structures) :
          FormEquals(form_structures[m], form_structures[n]) => m = n
    /\ (out.kind = "forms_seen" /\ enabled) =>
          \A i \in 1..Len(out.forms) :
             (/\ ShouldBeParsed(FormStructure(out.forms[i]), FALSE)
              /\ \A j \in (i + 1)..Len(out.forms) :
                    ~FormEquals(FormStructure(out.forms[j]), out.forms[i]))
             => /\ FindCachedForm(out.forms[i]) # 0
                /\ form_structures[FindCachedForm(out.forms[i])]
                      = FormStructure(out.forms[i])

\* C13: a live form or field with no cached entry is never a hard failure: a
\* query that finds no cached form and field hands off no suggestion, a fill
\* that finds none sends nothing, and a submission never hits the NOTREACHED
\* of LogMetricsAboutSubmittedForm.
C13_CacheMissIsNoFailure ==
    /\ (out.kind = "suggestions"
          /\ ~FindCachedFormAndField(out.form, out.field).found)
          => out.values = <<>>
    /\ out.kind = "filled" => FindCachedFormAndField(out.form, out.field).found
    /\ out.kind = "submitted" => ~out.not_reached

\* C8: a navigation commit leaves the cache empty, only a forms-seen event
\* makes an empty cache non-empty, and with the cache empty every suggestion
\* query hands off no suggestion and every fill request sends no filled form.
C8_NavigationEmptiesCache ==
    [][/\ out'.kind = "navigated" => form_structures' = <<>>
       /\ (form_structures = <<>> /\ form_structures' # <<>>)
             => out'.kind = "forms_seen"
       /\ (form_structures = <<>> /\ out'.kind = "suggestions")
             => /\ out'.values = <<>>
                /\ out'.labels = <<>>
                /\ out'.icons = <<>>
                /\ out'.unique_ids = <<>>
       /\ form_structures = <<>> => out'.kind # "filled"]_vars

\* With AutoFill enabled and every record in the store, a fill request with an
\* id that a query handed out found the cache empty and sent nothing: a
\* navigation came between the query and the fill
C8_Witness ==
    /\ out.kind = "not_filled"
    /\ out.unique_id \in KnownIds \ {-1}
    /\ form_structures = <<>>
    /\ enabled
    /\ personal_data = FullStore

\* The query or fill handler runs in this step with AutoFill switched off or
\* with no record in the store
NothingToOffer ==
    \/ ~enabled
    \/ personal_data.profiles = <<>> /\ personal_data.credit_cards = <<>>

\* The step is a suggestion query that hands off four empty vectors and
\* leaves the manager as it was, or a fill request that sends nothing and
\* leaves the manager as it was, or no query and no fill
QueryAndFillDoNothing ==
    /\ (out = NoOutput /\ out'.kind = "suggestions")
          => /\ out'.values = <<>> /\ out'.labels = <<>>
             /\ out'.icons = <<>> /\ out'.unique_ids = <<>>
             /\ UNCHANGED managerVarsButOut
    /\ (out = NoOutput /\ out'.kind \in {"filled", "not_filled"})
          => /\ out'.kind = "not_filled"
             /\ UNCHANGED managerVarsButOut

(***************************************************************************)
(* C21 as stated: while the preference is off or the store holds no        *)
(* profile and no credit card, every suggestion query hands off four empty *)
(* vectors, every fill request does nothing and a forms-seen event adds    *)
(* nothing to the cache.                                                   *)
(***************************************************************************)
C21_NothingWhileOffOrEmpty ==
    [][NothingToOffer
         => /\ QueryAndFillDoNothing
            /\ (out = NoOutput /\ out'.kind = "forms_seen")
                  => form_structures' = form_structures]_vars

(***************************************************************************)
(* C21, amended: the query and the fill do nothing while the preference is *)
(* off or the store is empty; a forms-seen event adds nothing to the cache *)
(* while the preference is off, and with the preference on parses the      *)
(* forms whether the store holds records or not.                           *)
(***************************************************************************)
C21_NothingWhileOff ==
    [][/\ NothingToOffer => QueryAndFillDoNothing
       /\ (out = NoOutput /\ out'.kind = "forms_seen")
             => form_structures' = IF enabled
                                   THEN ParseForms(form_structures, out'.forms)
                                   ELSE form_structures]_vars

\* With the preference off the store holds every record and the page reported
\* its checkout form, which was not cached
C21_Witness ==
    /\ ~enabled
    /\ personal_data = FullStore
    /\ out.kind = "forms_seen"
    /\ out.forms = <<Checkout>>
    /\ ShouldBeParsed(FormStructure(Checkout), FALSE)
    /\ FindCachedForm(Checkout) = 0

(***************************************************************************)
(* The classifier.  ParseForms hands the cache to the download manager,    *)
(* which sends a query for its forms; the response comes back later, as    *)
(* OnLoadedAutofillHeuristics, with one entry (field signature, type) for  *)
(* each field of the forms of the query.  |ret| holds the queries that     *)
(* wait for their response, each with the signatures of its forms and the  *)
(* entries the server will answer with.                                    *)
(***************************************************************************)
\* The signature of a field: its name and its control type
FieldSignature(field) == <<field.name, field.form_control_type>>

\* The type the server has for a field
ServerType(field) ==
    CASE field.name = "fname" -> "NAME_FIRST"
      [] field.name = "city"  -> "ADDRESS_BILLING_CITY"
      [] field.name = "ccnum" -> "CREDIT_CARD_NUMBER"
      [] field.name = "misc"  -> "PHONE_HOME_NUMBER"
      [] OTHER                -> "UNKNOWN_TYPE"

\* form_structures_ as StartQueryRequest is given it: the forms of method GET
\* of the batch are not in it yet
QueriedForms(cache, forms) ==
    LET parsed == [i \in 1..Len(forms) |-> FormStructure(forms[i])]
        Queryable(fs) == ShouldBeParsed(fs, FALSE) /\ ShouldBeParsed(fs, TRUE)
    IN cache \o SelectSeq(parsed, Queryable)

\* The query for |queried| and the response it will get
StartQueryRequest(queried) ==
    [forms |-> {FormSignature(queried[n]) : n \in 1..Len(queried)},
     entries |-> UNION {{<<FieldSignature(queried[n].fields[i]),
                           ServerType(queried[n].fields[i])>> :
                            i \in 1..Len(queried[n].fields)} :
                        n \in 1..Len(queried)}]

\* FormStructure::ParseQueryResponse: every field of every form of |cache|
\* whose signature has an entry is given the type of the entry, every other
\* field keeps its type
ParseQueryResponse(entries, cache) ==
    [n \in 1..Len(cache) |->
        [cache[n] EXCEPT !.fields =
            [i \in 1..Len(cache[n].fields) |->
                IF \E e \in entries : e[1] = FieldSignature(cache[n].fields[i])
                THEN [cache[n].fields[i] EXCEPT !.type =
                        (CHOOSE e \in entries :
                            e[1] = FieldSignature(cache[n].fields[i]))[2]]
                ELSE cache[n].fields[i]]]]

\* The signatures of the forms of |cache| that have a field with an entry
AssignedForms(entries, cache) ==
    {FormSignature(cache[n]) : n \in
        {m \in 1..Len(cache) :
            \E i \in 1..Len(cache[m].fields), e \in entries :
               e[1] = FieldSignature(cache[m].fields[i])}}

\* OnFormsSeen with the query that ParseForms starts
OnFormsSeenAndQuery(forms) ==
    /\ out = NoOutput
    /\ enabled
    /\ form_structures' = ParseForms(form_structures, forms)
    /\ ret' = IF QueriedForms(form_structures, forms) # <<>>
              THEN [in_flight |-> ret.in_flight \cup
                       {StartQueryRequest(QueriedForms(form_structures, forms))}]
              ELSE ret
    /\ out' = [kind |-> "forms_seen", forms |-> forms,
               queried |-> QueriedForms(form_structures, forms)]
    /\ UNCHANGED <<enabled, personal_data, guid_id_map, id_guid_map, last_id,
                   autofilled_forms_signatures, call>>

\* OnLoadedAutofillHeuristics for the response to |query|
OnLoadedAutofillHeuristics(query) ==
    /\ out = NoOutput
    /\ query \in ret.in_flight
    /\ form_structures' = ParseQueryResponse(query.entries, form_structures)
    /\ ret' = [in_flight |-> ret.in_flight \ {query}]
    /\ out' = [kind |-> "types_loaded", query |-> query.forms,
               assigned |-> AssignedForms(query.entries, form_structures)]
    /\ UNCHANGED <<enabled, personal_data, guid_id_map, id_guid_map, last_id,
                   autofilled_forms_signatures, call>>

ClassifierInit ==
    /\ ManagerIdle
    /\ call = [op |-> "none"]
    /\ ret = [in_flight |-> {}]

\* A form without fields, which ShouldBeParsed(false) turns down
Blank == PageForm("blank", TRUE, "POST", <<>>)

ClassifierForms == PageForms \cup {Blank}

ClassifierNext ==
    \/ \E form \in ClassifierForms :
          /\ Len(form_structures) < MaxCachedForms
          /\ Cardinality(ret.in_flight) < MaxInFlight
          /\ OnFormsSeenAndQuery(<<form>>)
    \/ \E form \in ClassifierForms, other \in ClassifierForms :
          /\ form.name # other.name
          /\ Len(form_structures) + 1 < MaxCachedForms
          /\ Cardinality(ret.in_flight) < MaxInFlight
          /\ OnFormsSeenAndQuery(<<form, other>>)
    \/ DidNavigateMainFramePostCommit
    \/ \E query \in ret.in_flight : OnLoadedAutofillHeuristics(query)
    \/ HandOff

SpecClassifier == ClassifierInit /\ [][ClassifierNext]_vars

(***************************************************************************)
(* C24.  A classifier response assigns types only to cached forms that     *)
(* were in the query it answers, whatever forms-seen events and navigation *)
(* commits came between the query and the response.                        *)
(***************************************************************************)
C24_ResponseOnlyForQueriedForms ==
    out.kind = "types_loaded" => out.assigned \subseteq out.query

(***************************************************************************)
(* C30.  A navigation commit discards the form cache and nothing else: the *)
(* id counter, both id maps and the list of autofilled form signatures are *)
(* as before, and every id that was packed before the navigation unpacks   *)
(* to the same pair of GUIDs after it.                                     *)
(***************************************************************************)
C30_NavigationKeepsIds ==
    [][(out = NoOutput /\ out'.kind = "navigated") =>
          /\ form_structures' = <<>>
          /\ UNCHANGED <<guid_id_map, id_guid_map, last_id,
                         autofilled_forms_signatures, enabled, personal_data>>
          /\ \A id \in KnownIds :
                UnpackGUIDs(id, Codec') = UnpackGUIDs(id, Codec)]_vars

\* A navigation commit emptied a cache of the manager that had handed out the
\* ids of all three records and had noted a form as autofilled
C30_Witness ==
    /\ out.kind = "navigated"
    /\ form_structures = <<>>
    /\ autofilled_forms_signatures # <<>>
    /\ DOMAIN guid_id_map = {ProfileA.guid, ProfileB.guid, CardC.guid}
    /\ \A id \in KnownIds \ {-1} : UnpackGUIDs(id, Codec) # <<"", "">>

\* The forms-seen event of this step started a query request, for the list
\* of cached forms out'.queried
QueryStarted == out = NoOutput /\ out'.kind = "forms_seen" /\ out'.queried # <<>>

(***************************************************************************)
(* C31.  Over the forms-seen batches of one document, a form that fails    *)
(* ShouldBeParsed(true) is never in the list of forms given to a query     *)
(* request, and no query request is started for a batch none of whose      *)
(* forms was parsed.                                                       *)
(***************************************************************************)
C31_QueryHoldsOnlyQueryableForms ==
    [][QueryStarted =>
          /\ \A n \in 1..Len(out'.queried) : ShouldBeParsed(out'.queried[n], TRUE)
          /\ \E i \in 1..Len(out'.forms) :
                ShouldBeParsed(FormStructure(out'.forms[i]), FALSE)]_vars

(***************************************************************************)
(* Fills and submissions.  The cache holds the checkout form and the pay   *)
(* form, every record of the store has its id.  The renderer sends fill    *)
(* requests for the two forms, with no field autofilled or with all of     *)
(* them, and the user or a script submits one of the forms of the page,    *)
(* the checkout form also as the page has it after it lost a field.        *)
(* |ret| keeps the signatures of the forms whose section was filled as a   *)
(* whole, the latest first.                                                *)
(***************************************************************************)
UploadInit ==
    /\ enabled = TRUE
    /\ personal_data = FullStore
    /\ form_structures = ParseForms(<<>>, <<Checkout, Pay>>)
    /\ guid_id_map = CodecAfterQueries.guid_id_map
    /\ id_guid_map = CodecAfterQueries.id_guid_map
    /\ last_id = CodecAfterQueries.last_id
    /\ autofilled_forms_signatures = <<>>
    /\ out = NoOutput
    /\ call = [op |-> "none"]
    /\ ret = [fills |-> <<>>]

\* OnFillAutoFillFormData, with the note of a fill that went through the
\* loop over the section
OnFillAutoFillFormDataNoted(form, field, unique_id) ==
    /\ out = NoOutput
    /\ \E r \in {FillResult(form, field, unique_id)} :
         /\ autofilled_forms_signatures' =
               IF r.pushed THEN <<r.signature>> \o autofilled_forms_signatures
               ELSE autofilled_forms_signatures
         /\ out' = IF r.sent
                   THEN [kind |-> "filled", form |-> form, field |-> field,
                         unique_id |-> unique_id,
                         result |-> [form EXCEPT !.fields = r.fields],
                         section_filled |-> r.section_filled, seen |-> r.seen]
                   ELSE [kind |-> "not_filled", form |-> form, field |-> field,
                         unique_id |-> unique_id]
         /\ ret' = IF r.sent /\ ~r.section_filled
                   THEN [fills |->
                           <<FormSignature(
                               form_structures[FindCachedForm(form)])>> \o ret.fills]
                   ELSE ret
    /\ UNCHANGED <<enabled, personal_data, form_structures, guid_id_map,
                   id_guid_map, last_id, call>>

UploadNext ==
    \/ \E form \in {Checkout, Pay}, filled \in BOOLEAN,
          unique_id \in {ShiftOr(0, 1), ShiftOr(3, 0), -1} :
          /\ Len(ret.fills) < MaxUploadFills
          /\ OnFillAutoFillFormDataNoted(WithAutofilled(form, filled),
                WithAutofilled(form, filled).fields[1], unique_id)
    \/ \E form \in PageForms, user_submitted \in BOOLEAN :
          OnFormSubmitted(form, user_submitted, FALSE, FALSE)
    \/ HandOff

SpecUpload == UploadInit /\ [][UploadNext]_vars

\* The signature of the submitted form is that of one of the three latest
\* fills of a whole section
AmongLastThreeFills ==
    \E n \in 1..Len(ret.fills) :
       n <= 3 /\ ret.fills[n] = FormSignature(FormStructure(out.form))

(***************************************************************************)
(* C32.  The was_autofilled flag of an upload is true exactly when the     *)
(* signature of the submitted form is the signature of one of the three    *)
(* latest fills of a whole section, and after an upload                    *)
(* autofilled_forms_signatures_ has three entries at most.                 *)
(***************************************************************************)
C32_WasAutofilledIsLastThreeFills ==
    (out.kind = "submitted" /\ out.uploaded) =>
       /\ out.was_autofilled = AmongLastThreeFills
       /\ Len(autofilled_forms_signatures) <= 3

\* An upload after four fills, for the form that was filled first and not
\* since: it is not reported as autofilled, and the list was cut to three
C32_Witness ==
    /\ out.kind = "submitted" /\ out.uploaded
    /\ Len(ret.fills) = 4
    /\ ret.fills[4] = FormSignature(FormStructure(out.form))
    /\ ~out.was_autofilled
    /\ Len(autofilled_forms_signatures) = 3

(***************************************************************************)
(* The id of the warning.  The cache holds the checkout form and the pay   *)
(* form, which is not HTTPS, and the store every record.  The manager has  *)
(* handed out profile guid-A under an id of SentinelFirstIds, the counter  *)
(* of the process having come that far; the ids of the other records are  *)
(* issued by the queries that follow.  The renderer sends back the id -1   *)
(* of the warning or the id of a suggestion.                               *)
(***************************************************************************)
SentinelFirstIds == {1, kUShortMax - 2, kUShortMax - 1, kUShortMax}

SentinelInit ==
    /\ enabled = TRUE
    /\ personal_data = FullStore
    /\ form_structures = ParseForms(<<>>, <<Checkout, Pay>>)
    /\ \E a \in SentinelFirstIds :
          /\ guid_id_map = [g \in {ProfileA.guid} |-> a]
          /\ id_guid_map = [n \in {a} |-> ProfileA.guid]
          /\ last_id = a + 1
    /\ autofilled_forms_signatures = <<>>
    /\ out = NoOutput
    /\ call = [op |-> "none"]
    /\ ret = [done |-> FALSE]

SentinelNext ==
    \/ \E form \in {Checkout, Pay} :
          \E j \in 1..Len(form.fields) :
             OnQueryFormFieldAutoFill(form, [form.fields[j] EXCEPT !.value = NoText])
    \/ \E form \in {Checkout, Pay},
          unique_id \in {-1, ShiftOr(0, guid_id_map[ProfileA.guid])} :
          \E j \in 1..Len(form.fields) :
             /\ autofilled_forms_signatures = <<>>
             /\ OnFillAutoFillFormData(form, form.fields[j], unique_id)
    \/ HandOff

SpecSentinel == SentinelInit /\ [][SentinelNext]_vars

\* Fewer than 65535 ids were issued
FewerThanAllIds == last_id - 1 < kUShortMax

Feedback == PageForm("feedback", TRUE, "POST", <<"misc">>)

SubmittedForms == PageForms \cup {Blank, Feedback}

SubmitInit ==
    /\ enabled = TRUE
    /\ personal_data \in Stores
    /\ form_structures = ParseForms(<<>>, <<Checkout, Pay>>)
    /\ guid_id_map = EmptyMap
    /\ id_guid_map = EmptyMap
    /\ last_id = 1
    /\ autofilled_forms_signatures \in
          {<<>>,
           <<FormSignature(FormStructure(Pay)), FormSignature(FormStructure(Pay)),
             FormSignature(FormStructure(Pay)),
             FormSignature(FormStructure(Checkout))>>}
    /\ out = NoOutput
    /\ call = [op |-> "none"]
    /\ ret = [done |-> FALSE]

SubmitNext ==
    \/ \E form \in SubmittedForms,
          user_submitted, off_the_record, imported \in BOOLEAN :
          OnFormSubmitted(form, user_submitted, off_the_record, imported)
    \/ \E value \in BOOLEAN : SetAutoFillEnabled(value)
    \/ HandOff

SpecSubmit == SubmitInit /\ [][SubmitNext]_vars

\* The submission is one that AutoFill has to leave alone
LeftAlone(form, user_submitted, off_the_record) ==
    \/ ~enabled
    \/ off_the_record
    \/ ~user_submitted
    \/ ~ShouldBeParsed(FormStructure(form), TRUE)

(***************************************************************************)
(* C38.  A submission reaches neither the upload nor the import of records *)
(* when AutoFill is disabled, when the profile is off the record, when a   *)
(* script submitted the form or when the form would not be parsed;         *)
(* autocomplete is told of every submission, of these too; and records are *)
(* imported only from a form that is auto-fillable.                        *)
(***************************************************************************)
C38_SubmissionGates ==
    [][\A form \in SubmittedForms,
          user_submitted, off_the_record, imported \in BOOLEAN :
          OnFormSubmitted(form, user_submitted, off_the_record, imported) =>
             /\ out'.autocomplete
             /\ LeftAlone(form, user_submitted, off_the_record)
                   => /\ ~out'.uploaded
                      /\ ~out'.import
                      /\ UNCHANGED <<personal_data, autofilled_forms_signatures>>
             /\ (out'.import \/ personal_data' # personal_data)
                   => IsAutoFillable(FormStructure(form), TRUE)]_vars

\* A form of method POST whose fields have no known type was uploaded and not
\* given to the import
C38_Witness ==
    /\ out.kind = "submitted"
    /\ out.form = Feedback
    /\ out.autocomplete
    /\ out.uploaded
    /\ ~out.import
    /\ enabled

(***************************************************************************)
(* Forms that are not HTTPS.  The cache holds the checkout form, which is  *)
(* HTTPS, and the pay form, which is not; the store holds every record and *)
(* every record has its id.  The renderer asks for suggestions for any     *)
(* field of the two forms and sends fill requests for any field of them,   *)
(* with the id of profile guid-A or the id of card guid-C.                 *)
(***************************************************************************)
SecureInit ==
    /\ enabled = TRUE
    /\ personal_data = FullStore
    /\ form_structures = ParseForms(<<>>, <<Checkout, Pay>>)
    /\ guid_id_map = CodecAfterQueries.guid_id_map
    /\ id_guid_map = CodecAfterQueries.id_guid_map
    /\ last_id = CodecAfterQueries.last_id
    /\ autofilled_forms_signatures = <<>>
    /\ out = NoOutput
    /\ call = [op |-> "none"]
    /\ ret = [done |-> FALSE]

SecureNext ==
    \/ \E form \in {Checkout, Pay}, filled \in BOOLEAN, value \in {NoText, <<"4">>} :
          \E j \in 1..Len(form.fields) :
             OnQueryFormFieldAutoFill(WithAutofilled(form, filled),
                [WithAutofilled(form, filled).fields[j] EXCEPT !.value = value])
    \/ \E form \in {Checkout, Pay}, filled \in BOOLEAN,
          unique_id \in {ShiftOr(0, 1), ShiftOr(3, 0)} :
          \E j \in 1..Len(form.fields) :
             /\ Len(autofilled_forms_signatures) <= MaxSignatures
             /\ OnFillAutoFillFormData(WithAutofilled(form, filled),
                   WithAutofilled(form, filled).fields[j], unique_id)
    \/ HandOff

SpecSecure == SecureInit /\ [][SecureNext]_vars

\* The form of what was handed off is cached and its cached form is not HTTPS
NotSecure ==
    /\ FindCachedForm(out.form) # 0
    /\ ~FormIsHTTPS(form_structures[FindCachedForm(out.form)])

\* The texts of the credit cards of the store, and their masked numbers
CardTexts ==
    UNION {{GetFieldText(personal_data.credit_cards[n], type) :
               type \in CreditCardTypes} \cup
           {ObfuscatedNumber(personal_data.credit_cards[n])} :
              n \in 1..Len(personal_data.credit_cards)} \ {NoText}

(***************************************************************************)
(* C39.  Nothing of a credit card leaves through a form that is not HTTPS: *)
(* for such a cached form no suggestion handed off is a text of a credit   *)
(* card or carries the id of one, and no fill sent has a live field that   *)
(* was written from a credit card.                                         *)
(***************************************************************************)
C39_NoCardThroughNonSecureForm ==
    /\ (out.kind = "suggestions" /\ NotSecure) =>
          /\ \A n \in 1..Len(out.values) : out.values[n] \notin CardTexts
          /\ \A n \in 1..Len(out.unique_ids) :
                UnpackGUIDs(out.unique_ids[n], Codec)[1] = ""
    /\ (out.kind = "filled" /\ NotSecure) =>
          \A j \in 1..Len(out.form.fields) :
             out.result.fields[j].value # out.form.fields[j].value
                => out.seen.profile # 0

=============================================================================
